---- MODULE Spec2Model ----
(***************************************************************************)
(* Billing handler of MahaaTailorsApp (src/backend/billing/index.py).      *)
(*                                                                         *)
(* The store is two tables: Bills (key bill_id) and BillItems (key         *)
(* item_id, secondary index on bill_id).  Every HTTP handler is one        *)
(* action; `last` records the request that ran last, its status code and   *)
(* the contents of both tables before it ran.                              *)
(*                                                                         *)
(* Amounts are exact decimal numbers, as the Decimal values the tables     *)
(* hold.  add_bill and update_bill compute with Decimal; add_payment,      *)
(* update_payment, delete_payment and delete_bill_item convert to float,   *)
(* compute in binary floating point and store Decimal(str(result)).  The   *)
(* model keeps the two apart: Decimal arithmetic is exact, float           *)
(* arithmetic is FloatAdd and FloatSub.                                    *)
(***************************************************************************)
EXTENDS Integers, Sequences, FiniteSets, TLC

\* ---- bounds of the model ----
MaxBills == 1          \* bill ids add_bill may generate
MaxItemIds == 2        \* item ids in the id space
MaxPaymentIds == 2     \* payment ids in the id space
MaxTime == 1           \* largest value of the clock
MaxItems == 2          \* items per request body
MaxPayments == 2       \* initial payments per add_bill body
MaxQty == 2            \* largest quantity in a request
MaxPrice == 1          \* largest unit price in a request, in tenths
MaxAmount == 2         \* largest payment amount in a request, in tenths
MaxProcs == 2          \* requests in flight at the same time
MaxImages == 2         \* image ids upload_bill_item_image may generate
MaxOwners == 2         \* bills in the model of two bills and their items

BillIds == 1..MaxBills
ItemIds == 1..MaxItemIds
PaymentIds == 1..MaxPaymentIds
Procs == 1..MaxProcs

\* ---- request values ----
\* An optional key of a JSON body: <<>> when the key is absent, <<v>> when present.
Absent == <<>>
Opt(S) == {Absent} \cup {<<v>> : v \in S}
\* dict.get(key, default)
Get(opt, default) == IF opt = Absent THEN default ELSE opt[1]
\* Python truthiness of an optional number: None and 0 are falsy.
TruthyNum(opt) == opt # Absent /\ opt[1] # 0
\* Python truthiness of a string; "" stands for a missing or empty string.
TruthyStr(s) == s # ""

\* ---- decimal numbers ----
\* A decimal number is written as an integer: t * Tenth + e stands for
\* t/10 + e * 10^-19.  Every number of the model has |e| < Tenth \div 2, so
\* + - < = on the integers are + - < = on the decimal numbers, exactly.
Tenth == 10 ^ 6
D(t, e) == t * Tenth + e

\* Decimal(str(float(a) + float(b))) for Decimal a and b: the operands of the
\* float additions of add_payment and of sum() in update_payment and
\* delete_payment, each with the result CPython computes.  The table holds
\* the operand pairs that occur within the bounds of the model; no other pair
\* has a value.  D(3, 400) is 0.30000000000000004.
FloatAddTable ==
    <<D(0 - 1, 0), D(0 - 1, 0)>> :> D(0 - 2, 0)
    @@ <<D(0 - 1, 0), D(1, 0)>> :> D(0, 0)
    @@ <<D(0 - 1, 0), D(2, 0)>> :> D(1, 0)
    @@ <<D(0, 0), D(0 - 1, 0)>> :> D(0 - 1, 0)
    @@ <<D(0, 0), D(1, 0)>> :> D(1, 0)
    @@ <<D(0, 0), D(2, 0)>> :> D(2, 0)
    @@ <<D(1, 0), D(0 - 1, 0)>> :> D(0, 0)
    @@ <<D(1, 0), D(1, 0)>> :> D(2, 0)
    @@ <<D(1, 0), D(2, 0)>> :> D(3, 400)
    @@ <<D(2, 0), D(0 - 1, 0)>> :> D(1, 0)
    @@ <<D(2, 0), D(1, 0)>> :> D(3, 400)
    @@ <<D(2, 0), D(2, 0)>> :> D(4, 0)
\* Decimal(str(float(a) - float(b))) for Decimal a and b: the operands of the
\* float subtractions of add_payment, update_payment, delete_payment and
\* delete_bill_item, each with the result CPython computes.  The two results
\* below 10^-16 keep their first 19 decimal places:
\* D(0, -555) is -5.551115123125783E-17, D(0, -277) is -2.7755575615628914E-17.
FloatSubTable ==
    <<D(0, 0), D(0 - 2, 0)>> :> D(2, 0)
    @@ <<D(0, 0), D(0 - 1, 0)>> :> D(1, 0)
    @@ <<D(0, 0), D(0, 0)>> :> D(0, 0)
    @@ <<D(0, 0), D(1, 0)>> :> D(0 - 1, 0)
    @@ <<D(0, 0), D(2, 0)>> :> D(0 - 2, 0)
    @@ <<D(0, 0), D(3, 0)>> :> D(0 - 3, 0)
    @@ <<D(0, 0), D(3, 400)>> :> D(0 - 3, -400)
    @@ <<D(0, 0), D(4, 0)>> :> D(0 - 4, 0)
    @@ <<D(1, -200), D(0 - 2, 0)>> :> D(3, 0)
    @@ <<D(1, -200), D(0 - 1, 0)>> :> D(2, -200)
    @@ <<D(1, -200), D(0, 0)>> :> D(1, -200)
    @@ <<D(1, -200), D(1, 0)>> :> D(0, -277)
    @@ <<D(1, -200), D(2, 0)>> :> D(0 - 1, -300)
    @@ <<D(1, -200), D(3, 0)>> :> D(0 - 2, 0)
    @@ <<D(1, -200), D(3, 400)>> :> D(0 - 2, -700)
    @@ <<D(1, -200), D(4, 0)>> :> D(0 - 3, -400)
    @@ <<D(1, 0), D(0 - 2, 0)>> :> D(3, 400)
    @@ <<D(1, 0), D(0 - 1, 0)>> :> D(2, 0)
    @@ <<D(1, 0), D(0, 0)>> :> D(1, 0)
    @@ <<D(1, 0), D(1, 0)>> :> D(0, 0)
    @@ <<D(1, 0), D(2, 0)>> :> D(0 - 1, 0)
    @@ <<D(1, 0), D(3, 0)>> :> D(0 - 2, 200)
    @@ <<D(1, 0), D(3, 400)>> :> D(0 - 2, -400)
    @@ <<D(1, 0), D(4, 0)>> :> D(0 - 3, -400)
    @@ <<D(1, 300), D(0 - 2, 0)>> :> D(3, 400)
    @@ <<D(1, 300), D(0 - 1, 0)>> :> D(2, 400)
    @@ <<D(1, 300), D(0, 0)>> :> D(1, 300)
    @@ <<D(1, 300), D(1, 0)>> :> D(0, 277)
    @@ <<D(1, 300), D(2, 0)>> :> D(0 - 1, 200)
    @@ <<D(1, 300), D(3, 0)>> :> D(0 - 2, 400)
    @@ <<D(1, 300), D(3, 400)>> :> D(0 - 2, 0)
    @@ <<D(1, 300), D(4, 0)>> :> D(0 - 3, 0)
    @@ <<D(2, -200), D(0 - 2, 0)>> :> D(4, 0)
    @@ <<D(2, -200), D(0 - 1, 0)>> :> D(3, 0)
    @@ <<D(2, -200), D(0, 0)>> :> D(2, -200)
    @@ <<D(2, -200), D(1, 0)>> :> D(1, -200)
    @@ <<D(2, -200), D(2, 0)>> :> D(0, -277)
    @@ <<D(2, -200), D(3, 0)>> :> D(0 - 1, 0)
    @@ <<D(2, -200), D(3, 400)>> :> D(0 - 1, -600)
    @@ <<D(2, -200), D(4, 0)>> :> D(0 - 2, -400)
    @@ <<D(2, 0), D(0 - 2, 0)>> :> D(4, 0)
    @@ <<D(2, 0), D(0 - 1, 0)>> :> D(3, 400)
    @@ <<D(2, 0), D(0, 0)>> :> D(2, 0)
    @@ <<D(2, 0), D(1, 0)>> :> D(1, 0)
    @@ <<D(2, 0), D(2, 0)>> :> D(0, 0)
    @@ <<D(2, 0), D(3, 0)>> :> D(0 - 1, 200)
    @@ <<D(2, 0), D(3, 400)>> :> D(0 - 1, -300)
    @@ <<D(2, 0), D(4, 0)>> :> D(0 - 2, 0)
    @@ <<D(2, 400), D(0 - 2, 0)>> :> D(4, 0)
    @@ <<D(2, 400), D(0 - 1, 0)>> :> D(3, 400)
    @@ <<D(2, 400), D(0, 0)>> :> D(2, 400)
    @@ <<D(2, 400), D(1, 0)>> :> D(1, 300)
    @@ <<D(2, 400), D(2, 0)>> :> D(0, 277)
    @@ <<D(2, 400), D(3, 0)>> :> D(0 - 1, 500)
    @@ <<D(2, 400), D(3, 400)>> :> D(0 - 1, 0)
    @@ <<D(2, 400), D(4, 0)>> :> D(0 - 2, 200)
    @@ <<D(3, 0), D(0 - 2, 0)>> :> D(5, 0)
    @@ <<D(3, 0), D(0 - 1, 0)>> :> D(4, 0)
    @@ <<D(3, 0), D(0, 0)>> :> D(3, 0)
    @@ <<D(3, 0), D(1, 0)>> :> D(2, -200)
    @@ <<D(3, 0), D(2, 0)>> :> D(1, -200)
    @@ <<D(3, 0), D(3, 0)>> :> D(0, 0)
    @@ <<D(3, 0), D(3, 400)>> :> D(0, -555)
    @@ <<D(3, 0), D(4, 0)>> :> D(0 - 1, -300)
    @@ <<D(3, 400), D(0 - 2, 0)>> :> D(5, 0)
    @@ <<D(3, 400), D(0 - 1, 0)>> :> D(4, 0)
    @@ <<D(3, 400), D(0, 0)>> :> D(3, 400)
    @@ <<D(3, 400), D(1, 0)>> :> D(2, 400)
    @@ <<D(3, 400), D(2, 0)>> :> D(1, 300)
    @@ <<D(3, 400), D(3, 0)>> :> D(0, 555)
    @@ <<D(3, 400), D(3, 400)>> :> D(0, 0)
    @@ <<D(3, 400), D(4, 0)>> :> D(0 - 1, 200)
    @@ <<D(4, 0), D(0 - 2, 0)>> :> D(6, 1000)
    @@ <<D(4, 0), D(0 - 1, 0)>> :> D(5, 0)
    @@ <<D(4, 0), D(0, 0)>> :> D(4, 0)
    @@ <<D(4, 0), D(1, 0)>> :> D(3, 400)
    @@ <<D(4, 0), D(2, 0)>> :> D(2, 0)
    @@ <<D(4, 0), D(3, 0)>> :> D(1, 300)
    @@ <<D(4, 0), D(3, 400)>> :> D(1, -200)
    @@ <<D(4, 0), D(4, 0)>> :> D(0, 0)
FloatAdd(a, b) == FloatAddTable[<<a, b>>]
FloatSub(a, b) == FloatSubTable[<<a, b>>]

\* JSON numbers of a request: tenths.
Amounts == {a * Tenth : a \in (0 - 1)..MaxAmount}
Prices == {p * Tenth : p \in 0..MaxPrice}
Methods == {"cash", "upi"}
Dates == {"d0"}

SeqsUpTo(S, n) == UNION {[1..k -> S] : k \in 0..n}

VARIABLES bills, billItems, nextBillId, nextItemId, nextPaymentId, clock, last,
          procs, nextImageId

vars == <<bills, billItems, nextBillId, nextItemId, nextPaymentId, clock, last,
          procs, nextImageId>>

\* ---- pure helpers ----
RECURSIVE SumFrom(_, _)
\* sum() adds the floats to its start value from left to right.
SumFrom(start, payments) ==
    IF payments = <<>> THEN start
    ELSE SumFrom(FloatAdd(start, Head(payments).amount), Tail(payments))

\* sum(float(p.get("amount", 0)) for p in payments)
SumAmounts(payments) == SumFrom(0, payments)

Max(a, b) == IF a >= b THEN a ELSE b

\* The status derivation every handler repeats after computing the amounts.
DeriveStatus(outstanding_amount, paid_amount) ==
    IF outstanding_amount <= 0 THEN "fully_paid"
    ELSE IF paid_amount > 0 THEN "partially_paid"
    ELSE "unpaid"

\* ---- the store: table operations ----
\* put_item: insert or overwrite the record with key k.
Put(tbl, k, v) == [x \in (DOMAIN tbl) \cup {k} |-> IF x = k THEN v ELSE tbl[x]]
\* delete_item: remove the record with key k (no error when it is absent).
Delete(tbl, k) == [x \in (DOMAIN tbl) \ {k} |-> tbl[x]]

\* ---- Bill Item Ledger ----
\* Query of BillItems by the BillIdIndex: the ids of the items owned by bill_id.
get_bill_items(tbl, bill_id) == {i \in DOMAIN tbl : tbl[i].bill_id = bill_id}

RECURSIVE delete_each(_, _)
\* for item in ...: bill_items_table.delete_item(Key={"item_id": ...})
delete_each(tbl, ids) ==
    IF ids = {} THEN tbl
    ELSE LET i == CHOOSE x \in ids : TRUE
         IN delete_each(Delete(tbl, i), ids \ {i})

RECURSIVE put_each_as_new(_, _, _, _, _, _)
\* put_each that stores every item of the list as a new item: no images, and
\* created now.
put_each_as_new(tbl, existing, existing_ids, bill_id, items, now) ==
    IF items = <<>> THEN tbl
    ELSE LET item == Head(items)
             item_record ==
                 [bill_id |-> bill_id,
                  quantity |-> item.quantity,
                  unit_price |-> item.unitPrice,
                  total_price |-> item.totalPrice,
                  reference_images |-> <<>>,
                  created_at |-> now]
         IN put_each_as_new(Put(tbl, item.id, item_record), existing, existing_ids,
                            bill_id, Tail(items), now)

RECURSIVE put_each(_, _, _, _, _, _)
\* The "Save/update items" loop of save_bill_items: one put_item per item of
\* the list, in list order; existing is the table as the query returned it.
put_each(tbl, existing, existing_ids, bill_id, items, now) ==
    IF items = <<>> THEN tbl
    ELSE LET item == Head(items)
             item_id == item.id
             known == item_id \in existing_ids
             item_record ==
                 [bill_id |-> bill_id,
                  quantity |-> item.quantity,
                  unit_price |-> item.unitPrice,
                  total_price |-> item.totalPrice,
                  reference_images |-> IF known THEN existing[item_id].reference_images
                                       ELSE <<>>,
                  created_at |-> IF known THEN existing[item_id].created_at ELSE now]
         IN put_each(Put(tbl, item_id, item_record), existing, existing_ids,
                     bill_id, Tail(items), now)

save_bill_items(tbl, bill_id, items, now) ==
    LET existing_ids == get_bill_items(tbl, bill_id)
        new_item_ids == {items[k].id : k \in DOMAIN items}
        afterDelete == delete_each(tbl, existing_ids \ new_item_ids)
    IN put_each(afterDelete, tbl, existing_ids, bill_id, items, now)

delete_bill_items(tbl, bill_id) == delete_each(tbl, get_bill_items(tbl, bill_id))

\* ---- item processing of add_bill and update_bill ----
RECURSIVE process_items(_, _, _)
\* The "Calculate total amount from items" loop.  An item without an id gets
\* the next fresh id (os.urandom); add_bill passes items without ids.
process_items(items, fresh, acc) ==
    IF items = <<>> THEN acc
    ELSE LET item == Head(items)
             hasId == item.id # Absent
             processed_item ==
                 [id |-> Get(item.id, fresh),
                  quantity |-> item.quantity,
                  unitPrice |-> item.unitPrice,
                  totalPrice |-> item.quantity * item.unitPrice]
         IN process_items(Tail(items), IF hasId THEN fresh ELSE fresh + 1,
                          Append(acc, processed_item))

RECURSIVE SumTotalPrice(_)
\* total_amount += item_total
SumTotalPrice(processed_items) ==
    IF processed_items = <<>> THEN 0
    ELSE Head(processed_items).totalPrice + SumTotalPrice(Tail(processed_items))

FreshCount(items) == Cardinality({k \in DOMAIN items : items[k].id = Absent})

\* ---- Bill Aggregate Engine: the computations of the handlers ----
RECURSIVE process_payments_below_total(_, _, _, _, _, _, _)
\* process_payments with the ceiling test ">=": a payment that brings the
\* running sum exactly to the total is refused.
process_payments_below_total(payments, total_amount, billing_date, now, fresh, processed_payments, paid_amount) ==
    IF payments = <<>>
    THEN [ok |-> TRUE, processed_payments |-> processed_payments,
          paid_amount |-> paid_amount]
    ELSE LET payment == Head(payments)
             payment_amount == Get(payment.amount, 0)
         IN IF payment_amount <= 0
            THEN process_payments_below_total(Tail(payments), total_amount,
                     billing_date, now, fresh, processed_payments, paid_amount)
            ELSE IF paid_amount + payment_amount >= total_amount
            THEN [ok |-> FALSE, processed_payments |-> processed_payments,
                  paid_amount |-> paid_amount]
            ELSE process_payments_below_total(Tail(payments), total_amount,
                     billing_date, now, fresh + 1,
                     Append(processed_payments,
                            [id |-> fresh,
                             amount |-> payment_amount,
                             paymentDate |-> Get(payment.paymentDate, billing_date),
                             paymentMethod |-> Get(payment.paymentMethod, "cash"),
                             createdAt |-> now]),
                     paid_amount + payment_amount)

RECURSIVE process_payments(_, _, _, _, _, _, _)
\* The "Process payments if provided" loop of add_bill.  ok = FALSE is the
\* early return with status 400.
process_payments(payments, total_amount, billing_date, now, fresh, processed_payments, paid_amount) ==
    IF payments = <<>>
    THEN [ok |-> TRUE, processed_payments |-> processed_payments,
          paid_amount |-> paid_amount]
    ELSE LET payment == Head(payments)
             payment_amount == Get(payment.amount, 0)
         IN IF payment_amount <= 0
            THEN process_payments(Tail(payments), total_amount, billing_date, now,
                                  fresh, processed_payments, paid_amount)
            ELSE IF paid_amount + payment_amount > total_amount
            THEN [ok |-> FALSE, processed_payments |-> processed_payments,
                  paid_amount |-> paid_amount]
            ELSE process_payments(Tail(payments), total_amount, billing_date, now,
                     fresh + 1,
                     Append(processed_payments,
                            [id |-> fresh,
                             amount |-> payment_amount,
                             paymentDate |-> Get(payment.paymentDate, billing_date),
                             paymentMethod |-> Get(payment.paymentMethod, "cash"),
                             createdAt |-> now]),
                     paid_amount + payment_amount)

\* The bill header add_bill puts into the Bills table.
add_bill_item(customer_id, total_amount, paid_amount, processed_payments, delivery_status) ==
    LET outstanding_amount == total_amount - paid_amount
    IN [customer_id |-> customer_id,
        delivery_status |-> delivery_status,
        total_amount |-> total_amount,
        paid_amount |-> paid_amount,
        outstanding_amount |-> outstanding_amount,
        status |-> DeriveStatus(outstanding_amount, paid_amount),
        payments |-> processed_payments]

\* update_bill_write that stores the new total but leaves outstanding_amount
\* and status as they were computed for the old total.
update_bill_write_stale(existing_bill, total_amount) ==
    [existing_bill EXCEPT !.total_amount = total_amount]

\* The header attributes update_bill sets: total, outstanding and status
\* against the paid_amount of the bill as read.
update_bill_write(existing_bill, total_amount) ==
    LET paid_amount == existing_bill.paid_amount
        outstanding_amount == total_amount - paid_amount
    IN [existing_bill EXCEPT !.total_amount = total_amount,
                             !.outstanding_amount = outstanding_amount,
                             !.status = DeriveStatus(outstanding_amount, paid_amount)]

\* The header attributes delete_bill_item sets after deleting the item.
delete_bill_item_write(bill, item_total) ==
    LET new_total == Max(0, FloatSub(bill.total_amount, item_total))
        paid_amount == bill.paid_amount
        new_outstanding == FloatSub(new_total, paid_amount)
    IN [bill EXCEPT !.total_amount = new_total,
                    !.outstanding_amount = new_outstanding,
                    !.status = DeriveStatus(new_outstanding, paid_amount)]

\* ---- Payment Ledger: the computations of the handlers ----
\* The attributes add_payment sets in its single update_item.
add_payment_write(bill, payment_amount, new_payment) ==
    LET payments == Append(bill.payments, new_payment)
        new_paid_amount == FloatAdd(bill.paid_amount, payment_amount)
        new_outstanding_amount == FloatSub(bill.total_amount, new_paid_amount)
    IN [bill EXCEPT !.payments = payments,
                    !.paid_amount = new_paid_amount,
                    !.outstanding_amount = new_outstanding_amount,
                    !.status = DeriveStatus(new_outstanding_amount, new_paid_amount)]

\* Index of the first payment with this id, 0 when there is none
\* (the enumerate loop with break of update_payment and delete_payment).
find_payment(payments, payment_id) ==
    IF \E i \in DOMAIN payments : payments[i].id = payment_id
    THEN CHOOSE i \in DOMAIN payments :
            /\ payments[i].id = payment_id
            /\ \A j \in 1..(i - 1) : payments[j].id # payment_id
    ELSE 0

\* Bill attributes recomputed from a payments list (update_payment, delete_payment).
recalculate(bill, payments) ==
    LET new_paid_amount == SumAmounts(payments)
        new_outstanding_amount == FloatSub(bill.total_amount, new_paid_amount)
    IN [bill EXCEPT !.payments = payments,
                    !.paid_amount = new_paid_amount,
                    !.outstanding_amount = new_outstanding_amount,
                    !.status = DeriveStatus(new_outstanding_amount, new_paid_amount)]

\* The attributes update_payment sets: payments[i] replaced, amounts recomputed.
update_payment_write(bill, i, payment_id, amount, payment_date, payment_method) ==
    recalculate(bill,
        [bill.payments EXCEPT ![i] = [id |-> payment_id,
                                      amount |-> amount,
                                      paymentDate |-> payment_date,
                                      paymentMethod |-> payment_method,
                                      createdAt |-> bill.payments[i].createdAt]])

\* payments.pop(i)
Pop(payments, i) ==
    [k \in 1..(Len(payments) - 1) |-> IF k < i THEN payments[k] ELSE payments[k + 1]]

\* The attributes delete_payment sets: payments without entry i, amounts recomputed.
delete_payment_write(bill, i) == recalculate(bill, Pop(bill.payments, i))

\* ---- request bodies ----
\* A stored delivery_status: <<>> is NULL, <<s>> the string s.
DeliveryValues == {<<>>, <<"">>, <<"pending">>, <<"delivered">>}
\* body.get("deliveryStatus", "pending"): the key may be missing.
delivery_status_of(hdr) == Get(hdr.delivery_status, <<"pending">>)

\* customerId, billingDate, deliveryDate of a bill body: all present, or one
\* missing; these bodies have no deliveryStatus key.
Headers ==
    [customer_id : {"c1"}, billing_date : {"d0"}, delivery_date : {"d0"},
     delivery_status : {Absent}]
    \cup {[customer_id |-> "",   billing_date |-> "d0", delivery_date |-> "d0",
           delivery_status |-> Absent],
          [customer_id |-> "c1", billing_date |-> "",   delivery_date |-> "d0",
           delivery_status |-> Absent],
          [customer_id |-> "c1", billing_date |-> "d0", delivery_date |-> "",
           delivery_status |-> Absent]}
\* Complete bodies with every deliveryStatus: none, null, or a string.
DeliveryHeaders ==
    [customer_id : {"c1"}, billing_date : {"d0"}, delivery_date : {"d0"},
     delivery_status : Opt(DeliveryValues)]

HeaderMissing(hdr) ==
    \/ ~TruthyStr(hdr.customer_id)
    \/ ~TruthyStr(hdr.billing_date)
    \/ ~TruthyStr(hdr.delivery_date)

\* Items of a request body; ids is the set of item ids the caller may name.
ItemInputs(ids) == [id : Opt(ids), quantity : 1..MaxQty, unitPrice : Prices]
\* Initial payments of an add_bill body.
CreatePaymentInputs ==
    [amount : Opt(Amounts), paymentDate : {Absent}, paymentMethod : {Absent}]

\* A handler that runs as one step answers at once: it leaves no request in
\* flight and generates no image id.
RespondWith(op, code, bill_id, req, body) ==
    /\ last' = [op |-> op, code |-> code, bill_id |-> bill_id, req |-> req,
                body |-> body, pre |-> bills, preItems |-> billItems]
    /\ UNCHANGED <<procs, nextImageId>>
\* The claims read the body of the two GET handlers only.
Respond(op, code, bill_id, req) == RespondWith(op, code, bill_id, req, <<>>)

\* No request is being answered: the last response has been delivered.
NoRequest == [op |-> "none", code |-> 0, bill_id |-> 0, req |-> <<>>,
              body |-> <<>>, pre |-> <<>>, preItems |-> <<>>]
Idle == last = NoRequest

\* A request in flight (its steps interleave with other requests; a step is
\* taken between two responses of the handlers that run as one step): the
\* handler op has run up to pc; local holds what it
\* has read or generated so far, code its status code once pc is "done".
InFlight(op, pc, bill_id, item_id, req, local, code) ==
    [op |-> op, pc |-> pc, bill_id |-> bill_id, item_id |-> item_id,
     req |-> req, local |-> local, code |-> code]
NoProc == InFlight("none", "idle", 0, 0, <<>>, <<>>, 0)
\* The handler of request p returns with this status code.
Done(p, code) == [procs EXCEPT ![p].pc = "done", ![p].code = code]

Init ==
    /\ bills = <<>>
    /\ billItems = <<>>
    /\ nextBillId = 1
    /\ nextItemId = 1
    /\ nextPaymentId = 1
    /\ clock = 0
    /\ last = NoRequest
    /\ procs = [p \in Procs |-> NoProc]
    /\ nextImageId = 1

\* The response is delivered; the next request may arrive.
Return ==
    /\ ~Idle
    /\ last' = NoRequest
    /\ UNCHANGED <<bills, billItems, nextBillId, nextItemId, nextPaymentId, clock,
                   procs, nextImageId>>

\* datetime.now() moves on between requests.
Tick ==
    /\ Idle
    /\ clock < MaxTime
    /\ clock' = clock + 1
    /\ UNCHANGED <<bills, billItems, nextBillId, nextItemId, nextPaymentId, last,
                   procs, nextImageId>>

\* POST /bills
\* The required-field check reads the header fields first ("or" short-circuits):
\* when one is missing the items and payments of the body are never looked at,
\* and the request is recorded without them.
add_bill_with(HeaderInputs, max_bills) ==
    /\ Idle
    /\ nextBillId <= max_bills
    /\ \E hdr \in HeaderInputs :
        IF HeaderMissing(hdr)
        THEN /\ Respond("add_bill", 400, 0,
                        [hdr |-> hdr, items |-> <<>>, payments |-> <<>>])
             /\ UNCHANGED <<bills, billItems, nextBillId, nextItemId,
                            nextPaymentId, clock>>
        ELSE \E items \in SeqsUpTo(ItemInputs({}), MaxItems),
                payments \in SeqsUpTo(CreatePaymentInputs, MaxPayments) :
            LET req == [hdr |-> hdr, items |-> items, payments |-> payments]
                bill_id == nextBillId
                processed_items == process_items(items, nextItemId, <<>>)
                total_amount == SumTotalPrice(processed_items)
                pp == process_payments(payments, total_amount, hdr.billing_date, clock,
                                       nextPaymentId, <<>>, 0)
            IN IF items = <<>>
               THEN /\ Respond("add_bill", 400, 0, req)
                    /\ UNCHANGED <<bills, billItems, nextBillId, nextItemId,
                                   nextPaymentId, clock>>
               ELSE IF ~pp.ok
               THEN /\ Respond("add_bill", 400, 0, req)
                    /\ UNCHANGED <<bills, billItems, nextBillId, nextItemId,
                                   nextPaymentId, clock>>
               ELSE /\ nextItemId + Len(items) - 1 <= MaxItemIds
                    /\ nextPaymentId + Len(pp.processed_payments) - 1 <= MaxPaymentIds
                    /\ bills' = Put(bills, bill_id,
                                    add_bill_item(hdr.customer_id, total_amount,
                                                  pp.paid_amount,
                                                  pp.processed_payments,
                                                  delivery_status_of(hdr)))
                    /\ billItems' = save_bill_items(billItems, bill_id,
                                                    processed_items, clock)
                    /\ nextBillId' = nextBillId + 1
                    /\ nextItemId' = nextItemId + Len(items)
                    /\ nextPaymentId' = nextPaymentId + Len(pp.processed_payments)
                    /\ Respond("add_bill", 200, bill_id, req)
                    /\ UNCHANGED clock

add_bill == add_bill_with(Headers, MaxBills)

\* PUT /bills/{id}
update_bill ==
    /\ Idle
    /\ \E bill_id \in BillIds, hdr \in Headers :
        IF HeaderMissing(hdr)
        THEN /\ Respond("update_bill", 400, bill_id, [hdr |-> hdr, items |-> <<>>])
             /\ UNCHANGED <<bills, billItems, nextBillId, nextItemId,
                            nextPaymentId, clock>>
        ELSE \E items \in SeqsUpTo(ItemInputs(1..(nextItemId - 1)), MaxItems) :
            LET req == [hdr |-> hdr, items |-> items]
                processed_items == process_items(items, nextItemId, <<>>)
                total_amount == SumTotalPrice(processed_items)
            IN IF items = <<>>
               THEN /\ Respond("update_bill", 400, bill_id, req)
                    /\ UNCHANGED <<bills, billItems, nextBillId, nextItemId,
                                   nextPaymentId, clock>>
               ELSE IF bill_id \notin DOMAIN bills
               THEN /\ Respond("update_bill", 404, bill_id, req)
                    /\ UNCHANGED <<bills, billItems, nextBillId, nextItemId,
                                   nextPaymentId, clock>>
               ELSE /\ nextItemId + FreshCount(items) - 1 <= MaxItemIds
                    /\ bills' = [bills EXCEPT ![bill_id] =
                                    [update_bill_write(bills[bill_id], total_amount)
                                        EXCEPT !.customer_id = hdr.customer_id,
                                               !.delivery_status =
                                                   delivery_status_of(hdr)]]
                    /\ billItems' = save_bill_items(billItems, bill_id,
                                                    processed_items, clock)
                    /\ nextItemId' = nextItemId + FreshCount(items)
                    /\ Respond("update_bill", 200, bill_id, req)
                    /\ UNCHANGED <<nextBillId, nextPaymentId, clock>>

\* DELETE /bills/{id}
delete_bill ==
    /\ Idle
    /\ \E bill_id \in BillIds :
        /\ billItems' = delete_bill_items(billItems, bill_id)
        /\ bills' = Delete(bills, bill_id)
        /\ Respond("delete_bill", 200, bill_id, <<>>)
        /\ UNCHANGED <<nextBillId, nextItemId, nextPaymentId, clock>>

\* DELETE /bill-items/{id}
delete_bill_item ==
    /\ Idle
    /\ \E item_id \in ItemIds :
        LET req == [item_id |-> item_id]
        IN IF item_id \notin DOMAIN billItems
           THEN /\ Respond("delete_bill_item", 404, 0, req)
                /\ UNCHANGED <<bills, billItems, nextBillId, nextItemId,
                               nextPaymentId, clock>>
           ELSE LET item == billItems[item_id]
                    bill_id == item.bill_id
                    item_total == item.total_price
                IN /\ billItems' = Delete(billItems, item_id)
                   /\ bills' = IF bill_id \in DOMAIN bills
                               THEN [bills EXCEPT ![bill_id] =
                                        delete_bill_item_write(bills[bill_id], item_total)]
                               ELSE bills
                   /\ Respond("delete_bill_item", 200, bill_id, req)
                   /\ UNCHANGED <<nextBillId, nextItemId, nextPaymentId, clock>>

\* paymentDate and paymentMethod of a payment body; "" is a missing key.
DateInputs == {""} \cup Dates
MethodInputs == {""} \cup Methods

\* POST /bills/{id}/payments
add_payment ==
    /\ Idle
    /\ \E bill_id \in BillIds, amount \in Opt(Amounts),
       payment_date \in DateInputs, payment_method \in MethodInputs :
        LET req == [amount |-> amount, paymentDate |-> payment_date,
                    paymentMethod |-> payment_method]
        IN IF ~TruthyNum(amount) \/ ~TruthyStr(payment_date) \/ ~TruthyStr(payment_method)
           THEN /\ Respond("add_payment", 400, bill_id, req)
                /\ UNCHANGED <<bills, billItems, nextBillId, nextItemId,
                               nextPaymentId, clock>>
           ELSE IF bill_id \notin DOMAIN bills
           THEN /\ Respond("add_payment", 404, bill_id, req)
                /\ UNCHANGED <<bills, billItems, nextBillId, nextItemId,
                               nextPaymentId, clock>>
           ELSE LET bill == bills[bill_id]
                    outstanding_amount == bill.outstanding_amount
                    payment_amount == amount[1]
                    new_payment == [id |-> nextPaymentId,
                                    amount |-> payment_amount,
                                    paymentDate |-> payment_date,
                                    paymentMethod |-> payment_method,
                                    createdAt |-> clock]
                IN IF payment_amount > outstanding_amount
                   THEN /\ Respond("add_payment", 400, bill_id, req)
                        /\ UNCHANGED <<bills, billItems, nextBillId, nextItemId,
                                       nextPaymentId, clock>>
                   ELSE /\ nextPaymentId <= MaxPaymentIds
                        /\ bills' = [bills EXCEPT ![bill_id] =
                                        add_payment_write(bill, payment_amount, new_payment)]
                        /\ nextPaymentId' = nextPaymentId + 1
                        /\ Respond("add_payment", 200, bill_id, req)
                        /\ UNCHANGED <<billItems, nextBillId, nextItemId, clock>>

\* PUT /bills/{id}/payments/{paymentId}
update_payment ==
    /\ Idle
    /\ \E bill_id \in BillIds, payment_id \in PaymentIds, amount \in Opt(Amounts),
       payment_date \in DateInputs, payment_method \in MethodInputs :
        LET req == [payment_id |-> payment_id, amount |-> amount,
                    paymentDate |-> payment_date, paymentMethod |-> payment_method]
        IN IF ~TruthyNum(amount) \/ ~TruthyStr(payment_date) \/ ~TruthyStr(payment_method)
           THEN /\ Respond("update_payment", 400, bill_id, req)
                /\ UNCHANGED <<bills, billItems, nextBillId, nextItemId,
                               nextPaymentId, clock>>
           ELSE IF bill_id \notin DOMAIN bills
           THEN /\ Respond("update_payment", 404, bill_id, req)
                /\ UNCHANGED <<bills, billItems, nextBillId, nextItemId,
                               nextPaymentId, clock>>
           ELSE LET bill == bills[bill_id]
                    i == find_payment(bill.payments, payment_id)
                IN IF i = 0
                   THEN /\ Respond("update_payment", 404, bill_id, req)
                        /\ UNCHANGED <<bills, billItems, nextBillId, nextItemId,
                                       nextPaymentId, clock>>
                   ELSE /\ bills' = [bills EXCEPT ![bill_id] =
                                        update_payment_write(bill, i, payment_id, amount[1],
                                                             payment_date, payment_method)]
                        /\ Respond("update_payment", 200, bill_id, req)
                        /\ UNCHANGED <<billItems, nextBillId, nextItemId,
                                       nextPaymentId, clock>>

\* DELETE /bills/{id}/payments/{paymentId}
delete_payment ==
    /\ Idle
    /\ \E bill_id \in BillIds, payment_id \in PaymentIds :
        LET req == [payment_id |-> payment_id]
        IN IF bill_id \notin DOMAIN bills
           THEN /\ Respond("delete_payment", 404, bill_id, req)
                /\ UNCHANGED <<bills, billItems, nextBillId, nextItemId,
                               nextPaymentId, clock>>
           ELSE LET bill == bills[bill_id]
                    i == find_payment(bill.payments, payment_id)
                IN IF i = 0
                   THEN /\ Respond("delete_payment", 404, bill_id, req)
                        /\ UNCHANGED <<bills, billItems, nextBillId, nextItemId,
                                       nextPaymentId, clock>>
                   ELSE /\ bills' = [bills EXCEPT ![bill_id] = delete_payment_write(bill, i)]
                        /\ Respond("delete_payment", 200, bill_id, req)
                        /\ UNCHANGED <<billItems, nextBillId, nextItemId,
                                       nextPaymentId, clock>>

Next ==
    \/ Tick
    \/ Return
    \/ add_bill
    \/ update_bill
    \/ delete_bill
    \/ delete_bill_item
    \/ add_payment
    \/ update_payment
    \/ delete_payment

Spec == Init /\ [][Next]_vars

\* ======================================================================
\* Single-item update and image attach
\* ======================================================================
\* PUT /bill-items/{id}
update_bill_item ==
    /\ Idle
    /\ \E item_id \in ItemIds, quantity \in Opt(0..MaxQty), unitPrice \in Opt(Prices) :
        LET req == [item_id |-> item_id, quantity |-> quantity, unitPrice |-> unitPrice]
        IN IF item_id \notin DOMAIN billItems
           THEN /\ Respond("update_bill_item", 404, 0, req)
                /\ UNCHANGED <<bills, billItems, nextBillId, nextItemId,
                               nextPaymentId, clock>>
           ELSE LET item == billItems[item_id]
                    withQuantity ==
                        IF TruthyNum(quantity)
                        THEN [item EXCEPT !.quantity = quantity[1]]
                        ELSE item
                    withPrice ==
                        IF unitPrice # Absent
                        THEN [withQuantity EXCEPT
                                 !.unit_price = unitPrice[1],
                                 !.total_price = unitPrice[1] * Get(quantity, item.quantity)]
                        ELSE withQuantity
                IN /\ billItems' = [billItems EXCEPT ![item_id] = withPrice]
                   /\ Respond("update_bill_item", 200, item.bill_id, req)
                   /\ UNCHANGED <<bills, nextBillId, nextItemId, nextPaymentId, clock>>

\* imageData of an upload body: missing, not decodable, decodable.
ImageDatas == {"", "abc", "aGk="}
\* base64.b64decode raises on incorrect padding.
B64Valid(image_data) == image_data = "aGk="

\* What a call to the store or to S3 can do: return; raise without effect; for
\* a write to the store also raise after the write took effect.
ReadOutcomes == {"ok", "failed"}
WriteOutcomes == {"ok", "failed", "applied_failed"}
Applied(outcome) == outcome \in {"ok", "applied_failed"}

\* update_item creates the record when the key is absent; such a record has
\* only the attributes the update sets.  The attributes it lacks are written
\* 0 (no bill, no quantity, no price) and -1 (no created_at).
KeyOnly ==
    [bill_id |-> 0, quantity |-> 0, unit_price |-> 0, total_price |-> 0,
     reference_images |-> <<>>, created_at |-> 0 - 1]
ItemOrKeyOnly(tbl, item_id) == IF item_id \in DOMAIN tbl THEN tbl[item_id] ELSE KeyOnly

\* list_append without the append: SET reference_images = [url].
list_append_overwrite(tbl, item_id, image_url) ==
    Put(tbl, item_id, [ItemOrKeyOnly(tbl, item_id) EXCEPT !.reference_images = <<image_url>>])

\* SET reference_images = list_append(if_not_exists(reference_images, []), [url])
list_append(tbl, item_id, image_url) ==
    LET item == ItemOrKeyOnly(tbl, item_id)
    IN Put(tbl, item_id,
           [item EXCEPT !.reference_images = Append(item.reference_images, image_url)])

\* SET reference_images = :images
set_reference_images(tbl, item_id, images) ==
    Put(tbl, item_id, [ItemOrKeyOnly(tbl, item_id) EXCEPT !.reference_images = images])

max_retries == 3

\* The locals of an upload in flight.
UploadLocal(image_url, path, attempt, current_images) ==
    [image_url |-> image_url, path |-> path, attempt |-> attempt,
     current_images |-> current_images]

\* A request that arrives takes the lowest free slot.
Free(p) == procs[p] = NoProc /\ \A q \in 1..(p - 1) : procs[q] # NoProc

\* POST /bills/{id}/items/{itemId}/images: the request arrives and the handler
\* reads the bill.
upload_get_bill(p) ==
    /\ Idle
    /\ Free(p)
    /\ \E bill_id \in BillIds, item_id \in ItemIds, image_data \in ImageDatas :
        LET req == [imageData |-> image_data]
            at(pc, code) == InFlight("upload_bill_item_image", pc, bill_id, item_id,
                                     req, UploadLocal(0, "none", 0, <<>>), code)
        IN procs' = [procs EXCEPT ![p] =
                        IF bill_id \notin DOMAIN bills THEN at("done", 404)
                        ELSE at("get_item", 0)]
    /\ UNCHANGED <<bills, billItems, nextBillId, nextItemId, nextPaymentId, clock,
                   last, nextImageId>>

\* The handler reads the item, checks the body and uploads the image to S3.
upload_get_item(p) ==
    /\ procs[p].op = "upload_bill_item_image"
    /\ procs[p].pc = "get_item"
    /\ Idle
    /\ \E s3 \in ReadOutcomes :
        LET image_data == procs[p].req.imageData
        IN IF procs[p].item_id \notin DOMAIN billItems
           THEN /\ procs' = Done(p, 404)
                /\ UNCHANGED nextImageId
           ELSE IF ~TruthyStr(image_data) \/ ~B64Valid(image_data)
           THEN /\ procs' = Done(p, 400)
                /\ UNCHANGED nextImageId
           ELSE /\ nextImageId <= MaxImages
                /\ nextImageId' = nextImageId + 1
                /\ procs' = IF s3 = "ok"
                            THEN [procs EXCEPT ![p].pc = "append",
                                               ![p].local.image_url = nextImageId]
                            ELSE Done(p, 500)
    /\ UNCHANGED <<bills, billItems, nextBillId, nextItemId, nextPaymentId, clock, last>>

\* The atomic append; when it raises the handler enters the fallback loop.
upload_append(p) ==
    /\ procs[p].op = "upload_bill_item_image"
    /\ procs[p].pc = "append"
    /\ Idle
    /\ \E outcome \in WriteOutcomes :
        /\ billItems' = IF Applied(outcome)
                        THEN list_append(billItems, procs[p].item_id,
                                         procs[p].local.image_url)
                        ELSE billItems
        /\ procs' = IF outcome = "ok"
                    THEN [Done(p, 200) EXCEPT ![p].local.path = "primary"]
                    ELSE [procs EXCEPT ![p].pc = "retry_get",
                                       ![p].local.path = "fallback"]
    /\ UNCHANGED <<bills, nextBillId, nextItemId, nextPaymentId, clock, last,
                   nextImageId>>

\* except retry_error: raise at the last attempt, otherwise sleep and retry.
retry_failed(p) ==
    IF procs[p].local.attempt = max_retries - 1
    THEN Done(p, 500)
    ELSE [procs EXCEPT ![p].pc = "retry_get",
                       ![p].local.attempt = procs[p].local.attempt + 1]

\* A fallback that appends without looking at the list it read.
image_url_in_never(image_url, current_images) == FALSE

\* image_url in current_images
image_url_in(image_url, current_images) ==
    \E k \in DOMAIN current_images : current_images[k] = image_url

\* Fallback: re-read the item and check whether the URL is already there.
upload_retry_get(p) ==
    /\ procs[p].op = "upload_bill_item_image"
    /\ procs[p].pc = "retry_get"
    /\ Idle
    /\ \E outcome \in ReadOutcomes :
        procs' = IF outcome = "failed" THEN retry_failed(p)
                 ELSE IF procs[p].item_id \notin DOMAIN billItems THEN Done(p, 200)
                 ELSE LET current_images ==
                              billItems[procs[p].item_id].reference_images
                          present == image_url_in(procs[p].local.image_url,
                                                  current_images)
                      IN IF present THEN Done(p, 200)
                         ELSE [procs EXCEPT
                                  ![p].pc = "retry_update",
                                  ![p].local.current_images =
                                      Append(current_images, procs[p].local.image_url)]
    /\ UNCHANGED <<bills, billItems, nextBillId, nextItemId, nextPaymentId, clock,
                   last, nextImageId>>

\* Fallback: write the list read by this attempt, with the URL appended.
upload_retry_update(p) ==
    /\ procs[p].op = "upload_bill_item_image"
    /\ procs[p].pc = "retry_update"
    /\ Idle
    /\ \E outcome \in WriteOutcomes :
        /\ billItems' = IF Applied(outcome)
                        THEN set_reference_images(billItems, procs[p].item_id,
                                                  procs[p].local.current_images)
                        ELSE billItems
        /\ procs' = IF outcome = "ok" THEN Done(p, 200) ELSE retry_failed(p)
    /\ UNCHANGED <<bills, nextBillId, nextItemId, nextPaymentId, clock, last,
                   nextImageId>>

\* The response of request p is delivered.
Finish(p) ==
    /\ procs[p].pc = "done"
    /\ Idle
    /\ procs' = [procs EXCEPT ![p] = NoProc]
    /\ UNCHANGED <<bills, billItems, nextBillId, nextItemId, nextPaymentId, clock,
                   last, nextImageId>>

upload_bill_item_image(p) ==
    \/ upload_get_bill(p)
    \/ upload_get_item(p)
    \/ upload_append(p)
    \/ upload_retry_get(p)
    \/ upload_retry_update(p)

\* add_bill for a body without initial payments (payments are kept in the
\* bill header and never touch the BillItems table).
add_bill_unpaid == add_bill /\ last'.req.payments = <<>>

\* The ledger under bill updates, with one attach at a time.
NextLedger ==
    \/ Tick
    \/ Return
    \/ add_bill_unpaid
    \/ update_bill
    \/ upload_bill_item_image(1)
    \/ Finish(1)

SpecLedger == Init /\ [][NextLedger]_vars

\* The writers of quantity, unit_price and total_price of an item.
NextItems ==
    \/ Tick
    \/ Return
    \/ add_bill
    \/ update_bill
    \/ update_bill_item

SpecItems == Init /\ [][NextItems]_vars

\* Attach while items are deleted.
NextAttachDelete ==
    \/ Return
    \/ add_bill_unpaid
    \/ delete_bill_item
    \/ upload_bill_item_image(1)
    \/ Finish(1)

SpecAttachDelete == Init /\ [][NextAttachDelete]_vars

\* Attach requests running at the same time.
NextAttach ==
    \/ Return
    \/ add_bill
    \/ \E p \in Procs : upload_bill_item_image(p)
    \/ \E p \in Procs : Finish(p)

SpecAttach == Init /\ [][NextAttach]_vars

\* ======================================================================
\* Read, List and the steps of Delete
\* ======================================================================
\* The bill object get_bill_by_id builds from a stored header; get_bills
\* repeats the same lines for every scanned header.
bill_response(bill_id) ==
    LET bill_item == bills[bill_id]
        total_amount == bill_item.total_amount
        payments == bill_item.payments
        paid_amount == SumAmounts(payments)
        outstanding_amount == FloatSub(total_amount, paid_amount)
    IN [id |-> bill_id,
        items |-> get_bill_items(billItems, bill_id),
        totalAmount |-> total_amount,
        paidAmount |-> paid_amount,
        outstandingAmount |-> outstanding_amount,
        status |-> DeriveStatus(outstanding_amount, paid_amount),
        payments |-> payments]

\* GET /bills/{id}
get_bill_by_id ==
    /\ Idle
    /\ \E bill_id \in BillIds :
        IF bill_id \notin DOMAIN bills
        THEN Respond("get_bill_by_id", 404, bill_id, <<>>)
        ELSE RespondWith("get_bill_by_id", 200, bill_id, <<>>, bill_response(bill_id))
    /\ UNCHANGED <<bills, billItems, nextBillId, nextItemId, nextPaymentId, clock>>

\* The status query parameter of get_bills: none, or a status to filter by.
StatusFilters == {"", "unpaid", "partially_paid", "fully_paid"}

\* The deliveryStatus query parameter of get_bills: none, or a value.
DeliveryFilters == {"", "pending", "delivered"}

\* raw_delivery_status or "pending"
delivery_status_or_pending(raw) ==
    IF raw # <<>> /\ TruthyStr(raw[1]) THEN raw[1] ELSE "pending"

\* GET /bills: the scan filters on the stored status and, for a deliveryStatus
\* other than "pending", on the stored delivery_status; every header the scan
\* returned is recalculated; for deliveryStatus "pending" the bills built are
\* filtered afterwards.
get_bills ==
    /\ Idle
    /\ \E status \in StatusFilters, delivery_status \in DeliveryFilters :
        LET scanned ==
                {b \in DOMAIN bills :
                    /\ TruthyStr(status) => bills[b].status = status
                    /\ (TruthyStr(delivery_status) /\ delivery_status # "pending") =>
                          bills[b].delivery_status = <<delivery_status>>}
            built == [b \in scanned |->
                         bill_response(b) @@
                         [deliveryStatus |->
                             delivery_status_or_pending(bills[b].delivery_status)]]
            returned == IF delivery_status = "pending"
                        THEN {b \in scanned : built[b].deliveryStatus = "pending"}
                        ELSE scanned
        IN RespondWith("get_bills", 200, 0,
                       [status |-> status, deliveryStatus |-> delivery_status],
                       [b \in returned |-> built[b]])
    /\ UNCHANGED <<bills, billItems, nextBillId, nextItemId, nextPaymentId, clock>>

\* The serial handlers together with the two reads.
NextRead ==
    \/ Next
    \/ get_bill_by_id
    \/ get_bills

SpecRead == Init /\ [][NextRead]_vars

\* The locals of a delete_bill in flight: the items the query returned that
\* are not deleted yet, and whether the query raised.
DeleteLocal(existing_items, lookup) ==
    [existing_items |-> existing_items, lookup |-> lookup]

\* DELETE /bills/{id}: the request arrives and delete_bill_items queries the
\* items of the bill; get_bill_items answers [] when the query raises.  The
\* id is one add_bill has generated (a caller cannot name an id before it is
\* generated); the bill may have been deleted since.
delete_bill_get_items(p) ==
    /\ Idle
    /\ Free(p)
    /\ \E bill_id \in 1..(nextBillId - 1), outcome \in ReadOutcomes :
        procs' = [procs EXCEPT ![p] =
                     InFlight("delete_bill", "delete_items", bill_id, 0, <<>>,
                              DeleteLocal(IF outcome = "ok"
                                          THEN get_bill_items(billItems, bill_id)
                                          ELSE {},
                                          outcome),
                              0)]
    /\ UNCHANGED <<bills, billItems, nextBillId, nextItemId, nextPaymentId, clock,
                   last, nextImageId>>

\* One delete_item of the loop of delete_bill_items (the query returns the
\* items in no particular order); an exception ends the request with 500.
delete_bill_delete_item(p) ==
    /\ Idle
    /\ procs[p].op = "delete_bill"
    /\ procs[p].pc = "delete_items"
    /\ \E i \in procs[p].local.existing_items, outcome \in WriteOutcomes :
        /\ billItems' = IF Applied(outcome) THEN Delete(billItems, i) ELSE billItems
        /\ procs' = IF outcome = "ok"
                    THEN [procs EXCEPT ![p].local.existing_items =
                                           procs[p].local.existing_items \ {i}]
                    ELSE Done(p, 500)
    /\ UNCHANGED <<bills, nextBillId, nextItemId, nextPaymentId, clock, last,
                   nextImageId>>

\* After the loop: bills_table.delete_item of the header.
delete_bill_delete_header(p) ==
    /\ Idle
    /\ procs[p].op = "delete_bill"
    /\ procs[p].pc = "delete_items"
    /\ procs[p].local.existing_items = {}
    /\ \E outcome \in WriteOutcomes :
        /\ bills' = IF Applied(outcome) THEN Delete(bills, procs[p].bill_id) ELSE bills
        /\ procs' = Done(p, IF outcome = "ok" THEN 200 ELSE 500)
    /\ UNCHANGED <<billItems, nextBillId, nextItemId, nextPaymentId, clock, last,
                   nextImageId>>

delete_bill_steps(p) ==
    \/ delete_bill_get_items(p)
    \/ delete_bill_delete_item(p)
    \/ delete_bill_delete_header(p)

\* Bills are created, read and deleted; store calls of Delete may fail.
NextDelete ==
    \/ Return
    \/ add_bill_unpaid
    \/ get_bill_by_id
    \/ delete_bill_steps(1)
    \/ Finish(1)

SpecDelete == Init /\ [][NextDelete]_vars

\* ======================================================================
\* AddPayment step by step
\* ======================================================================
\* The locals of an add_payment in flight: the bill as get_item returned it
\* and the payment built from the body.
PaymentLocal(bill, new_payment) == [bill |-> bill, new_payment |-> new_payment]

\* A header update_item creates for a key that is absent has only the
\* attributes the update sets; until then customer_id is written "" and
\* total_amount 0.
KeyOnlyBill ==
    [customer_id |-> "", delivery_status |-> <<>>, total_amount |-> 0, paid_amount |-> 0,
     outstanding_amount |-> 0, status |-> "", payments |-> <<>>]
HeaderOrKeyOnly(tbl, bill_id) == IF bill_id \in DOMAIN tbl THEN tbl[bill_id] ELSE KeyOnlyBill

\* update_item with the payments list extended in the store
\* (list_append(payments, [new_payment])) instead of replaced.
add_payment_set_append(stored, computed) ==
    [stored EXCEPT !.payments = Append(stored.payments,
                                       computed.payments[Len(computed.payments)]),
                   !.paid_amount = computed.paid_amount,
                   !.outstanding_amount = computed.outstanding_amount,
                   !.status = computed.status]

\* SET payments = :payments, paid_amount = :paidAmount,
\* outstanding_amount = :outstandingAmount, #s = :status on the stored header.
add_payment_set(stored, computed) ==
    [stored EXCEPT !.payments = computed.payments,
                   !.paid_amount = computed.paid_amount,
                   !.outstanding_amount = computed.outstanding_amount,
                   !.status = computed.status]

\* POST /bills/{id}/payments: the request arrives; the handler checks the body,
\* reads the bill, checks the amount against the outstanding amount it read and
\* builds the payment.
add_payment_get(p) ==
    /\ Idle
    /\ Free(p)
    /\ \E bill_id \in BillIds, amount \in Opt(Amounts),
          payment_date \in DateInputs, payment_method \in MethodInputs :
        LET req == [amount |-> amount, paymentDate |-> payment_date,
                    paymentMethod |-> payment_method]
            at(pc, local, code) ==
                [procs EXCEPT ![p] = InFlight("add_payment", pc, bill_id, 0, req,
                                              local, code)]
        IN IF ~TruthyNum(amount) \/ ~TruthyStr(payment_date) \/ ~TruthyStr(payment_method)
           THEN /\ procs' = at("done", <<>>, 400)
                /\ UNCHANGED nextPaymentId
           ELSE IF bill_id \notin DOMAIN bills
           THEN /\ procs' = at("done", <<>>, 404)
                /\ UNCHANGED nextPaymentId
           ELSE IF amount[1] > bills[bill_id].outstanding_amount
           THEN /\ procs' = at("done", <<>>, 400)
                /\ UNCHANGED nextPaymentId
           ELSE /\ nextPaymentId <= MaxPaymentIds
                /\ nextPaymentId' = nextPaymentId + 1
                /\ procs' = at("update",
                               PaymentLocal(bills[bill_id],
                                            [id |-> nextPaymentId,
                                             amount |-> amount[1],
                                             paymentDate |-> payment_date,
                                             paymentMethod |-> payment_method,
                                             createdAt |-> clock]),
                               0)
    /\ UNCHANGED <<bills, billItems, nextBillId, nextItemId, clock, last, nextImageId>>

\* The single update_item of add_payment, computed from the bill as it was
\* read; an exception is re-raised and answered with 500.  The handler then
\* reads the header again for the response: updated_bill["customer_id"]
\* raises when the update has created the header, and the answer is 500.
add_payment_update(p) ==
    /\ Idle
    /\ procs[p].op = "add_payment"
    /\ procs[p].pc = "update"
    /\ \E outcome \in WriteOutcomes :
        LET computed == add_payment_write(procs[p].local.bill,
                                          procs[p].local.new_payment.amount,
                                          procs[p].local.new_payment)
        IN /\ bills' = IF Applied(outcome)
                       THEN Put(bills, procs[p].bill_id,
                                add_payment_set(HeaderOrKeyOnly(bills, procs[p].bill_id),
                                                computed))
                       ELSE bills
           /\ procs' = Done(p, IF /\ outcome = "ok"
                                  /\ TruthyStr(bills'[procs[p].bill_id].customer_id)
                               THEN 200 ELSE 500)
    /\ UNCHANGED <<billItems, nextBillId, nextItemId, nextPaymentId, clock, last,
                   nextImageId>>

add_payment_steps(p) ==
    \/ add_payment_get(p)
    \/ add_payment_update(p)

\* AddPayment requests running at the same time.
NextRace ==
    \/ Return
    \/ Tick
    \/ add_bill_unpaid
    \/ \E p \in Procs : add_payment_steps(p)
    \/ \E p \in Procs : Finish(p)

SpecRace == Init /\ [][NextRace]_vars

\* ======================================================================
\* Image detach
\* ======================================================================
\* The imageId path parameter of a detach request: the id of an image the
\* handler generated, a text every image URL contains (such as "bill-items"),
\* or a text no URL contains.
ImageIdInputs ==
    [kind : {"id"}, id : 1..MaxImages] \cup [kind : {"common", "foreign"}, id : {0}]

\* image_id in image_url: an image URL (written by the image id it embeds)
\* contains its own image id and the common text.
Contains(image_id, image_url) ==
    \/ image_id.kind = "common"
    \/ image_id.kind = "id" /\ image_id.id = image_url

\* The loop of delete_bill_item_image with the test reversed: it keeps the
\* URLs that contain image_id.
updated_images_kept(current_images, image_id) ==
    SelectSeq(current_images, LAMBDA image_url : Contains(image_id, image_url))

\* The loop of delete_bill_item_image: the URLs that do not contain image_id,
\* in the order of the stored list.
updated_images(current_images, image_id) ==
    SelectSeq(current_images, LAMBDA image_url : ~Contains(image_id, image_url))

\* DELETE /bills/{id}/items/{itemId}/images/{imageId}; s3 is what
\* s3_client.delete_object does.
delete_bill_item_image ==
    /\ Idle
    /\ \E item_id \in ItemIds, image_id \in ImageIdInputs, s3 \in ReadOutcomes :
        LET req == [item_id |-> item_id, image_id |-> image_id, s3 |-> s3]
        IN IF item_id \notin DOMAIN billItems
           THEN /\ Respond("delete_bill_item_image", 404, 0, req)
                /\ UNCHANGED billItems
           ELSE LET current_images == billItems[item_id].reference_images
                    found == \E k \in DOMAIN current_images :
                                Contains(image_id, current_images[k])
                IN IF ~found
                   THEN /\ Respond("delete_bill_item_image", 404, 0, req)
                        /\ UNCHANGED billItems
                   ELSE /\ billItems' = set_reference_images(billItems, item_id,
                                            updated_images(current_images, image_id))
                        /\ Respond("delete_bill_item_image", 200, 0, req)
    /\ UNCHANGED <<bills, nextBillId, nextItemId, nextPaymentId, clock>>

\* Images are attached, one request at a time, and detached.
NextDetach ==
    \/ Return
    \/ add_bill_unpaid
    \/ upload_bill_item_image(1)
    \/ Finish(1)
    \/ delete_bill_item_image

SpecDetach == Init /\ [][NextDetach]_vars

\* Bills with every deliveryStatus are created, updated and listed.
NextList ==
    \/ Return
    \/ add_bill_with(DeliveryHeaders, MaxBills)
    \/ get_bills

SpecList == Init /\ [][NextList]_vars

\* ======================================================================
\* Create and Update step by step
\* ======================================================================
\* The locals of an add_bill or update_bill in flight: the header as put
\* (add_bill) or as read (update_bill), the items processed from the body, the
\* total computed from them, now, and inside save_bill_items the items the
\* query returned and those of them still to delete; raised names the call
\* whose exception ended the request.
SaveLocal(bill, processed_items, total_amount, now, existing, to_delete) ==
    [bill |-> bill, processed_items |-> processed_items,
     total_amount |-> total_amount, now |-> now,
     existing |-> existing, to_delete |-> to_delete, raised |-> ""]
\* The call raises; the handler answers 500.
Raise(p, call) ==
    [procs EXCEPT ![p].pc = "done", ![p].code = 500, ![p].local.raised = call]

\* add_bill without the put_item of the header.
add_bill_put_item_skipped(tbl, bill_id, bill_item) == tbl

\* bills_table.put_item(Item=bill_item) of add_bill.
add_bill_put_item(tbl, bill_id, bill_item) == Put(tbl, bill_id, bill_item)

\* POST /bills: the request arrives; the handler checks the body, processes
\* items and payments and puts the header.  An exception of put_item is
\* answered with 500.
add_bill_put(p) ==
    /\ Idle
    /\ Free(p)
    /\ nextBillId <= MaxBills
    /\ \E hdr \in Headers, outcome \in WriteOutcomes :
        LET at(pc, bill_id, req, local, code) ==
                [procs EXCEPT ![p] = InFlight("add_bill", pc, bill_id, 0, req,
                                              local, code)]
        IN IF HeaderMissing(hdr)
           THEN /\ procs' = at("done", 0, [hdr |-> hdr, items |-> <<>>,
                                           payments |-> <<>>], <<>>, 400)
                /\ UNCHANGED <<bills, nextBillId, nextItemId, nextPaymentId>>
           ELSE \E items \in SeqsUpTo(ItemInputs({}), MaxItems),
                   payments \in SeqsUpTo(CreatePaymentInputs, MaxPayments) :
               LET req == [hdr |-> hdr, items |-> items, payments |-> payments]
                   bill_id == nextBillId
                   processed_items == process_items(items, nextItemId, <<>>)
                   total_amount == SumTotalPrice(processed_items)
                   pp == process_payments(payments, total_amount, hdr.billing_date,
                                          clock, nextPaymentId, <<>>, 0)
                   bill_item == add_bill_item(hdr.customer_id, total_amount,
                                              pp.paid_amount,
                                              pp.processed_payments,
                                              delivery_status_of(hdr))
               IN IF items = <<>> \/ ~pp.ok
                  THEN /\ procs' = at("done", 0, req, <<>>, 400)
                       /\ UNCHANGED <<bills, nextBillId, nextItemId, nextPaymentId>>
                  ELSE /\ nextItemId + Len(items) - 1 <= MaxItemIds
                       /\ nextPaymentId + Len(pp.processed_payments) - 1
                              <= MaxPaymentIds
                       /\ nextBillId' = nextBillId + 1
                       /\ nextItemId' = nextItemId + Len(items)
                       /\ nextPaymentId' = nextPaymentId + Len(pp.processed_payments)
                       /\ bills' = IF Applied(outcome)
                                   THEN add_bill_put_item(bills, bill_id, bill_item)
                                   ELSE bills
                       /\ procs' = at(IF outcome = "ok" THEN "save_get" ELSE "done",
                                      bill_id, req,
                                      [SaveLocal(bill_item, processed_items,
                                                 total_amount, clock, <<>>, {})
                                          EXCEPT !.raised = IF outcome = "ok" THEN ""
                                                            ELSE "put_item"],
                                      IF outcome = "ok" THEN 0 ELSE 500)
    /\ UNCHANGED <<billItems, clock, last, nextImageId>>

\* Inside save_bill_items (called by add_bill and update_bill after the header
\* write): get_bill_items queries the items of the bill and answers [] when the
\* query raises.
save_get_items(p) ==
    /\ Idle
    /\ procs[p].op \in {"add_bill", "update_bill"}
    /\ procs[p].pc = "save_get"
    /\ \E outcome \in ReadOutcomes :
        LET existing_ids == IF outcome = "ok"
                            THEN get_bill_items(billItems, procs[p].bill_id)
                            ELSE {}
            items == procs[p].local.processed_items
            new_item_ids == {items[k].id : k \in DOMAIN items}
        IN procs' = [procs EXCEPT ![p].pc = "save_items",
                                  ![p].local.existing =
                                      [i \in existing_ids |-> billItems[i]],
                                  ![p].local.to_delete =
                                      existing_ids \ new_item_ids]
    /\ UNCHANGED <<bills, billItems, nextBillId, nextItemId, nextPaymentId, clock,
                   last, nextImageId>>

\* One delete_item of the "Delete items that are no longer in the new list"
\* loop; an exception is re-raised and answered with 500.
save_delete_item(p) ==
    /\ Idle
    /\ procs[p].op \in {"add_bill", "update_bill"}
    /\ procs[p].pc = "save_items"
    /\ \E i \in procs[p].local.to_delete, outcome \in WriteOutcomes :
        /\ billItems' = IF Applied(outcome) THEN Delete(billItems, i) ELSE billItems
        /\ procs' = IF outcome = "ok"
                    THEN [procs EXCEPT ![p].local.to_delete =
                                           procs[p].local.to_delete \ {i}]
                    ELSE Raise(p, "save_bill_items")
    /\ UNCHANGED <<bills, nextBillId, nextItemId, nextPaymentId, clock, last,
                   nextImageId>>

\* One put_item of the "Save/update items" loop, built from the item as the
\* query returned it; after the last one the handler answers 200.
save_put_item(p) ==
    /\ Idle
    /\ procs[p].op \in {"add_bill", "update_bill"}
    /\ procs[p].pc = "save_items"
    /\ procs[p].local.to_delete = {}
    /\ procs[p].local.processed_items # <<>>
    /\ \E outcome \in WriteOutcomes :
        LET local == procs[p].local
            rest == Tail(local.processed_items)
        IN /\ billItems' = IF Applied(outcome)
                           THEN put_each(billItems, local.existing,
                                         DOMAIN local.existing, procs[p].bill_id,
                                         <<Head(local.processed_items)>>, local.now)
                           ELSE billItems
           /\ procs' = IF outcome # "ok" THEN Raise(p, "save_bill_items")
                       ELSE IF rest = <<>> THEN Done(p, 200)
                       ELSE [procs EXCEPT ![p].local.processed_items = rest]
    /\ UNCHANGED <<bills, nextBillId, nextItemId, nextPaymentId, clock, last,
                   nextImageId>>

save_bill_items_steps(p) ==
    \/ save_get_items(p)
    \/ save_delete_item(p)
    \/ save_put_item(p)

\* Bills are created and read; store calls of Create may fail.  The bill id
\* is new, so the query inside save_bill_items finds nothing to delete.
NextCreate ==
    \/ Return
    \/ Tick
    \/ add_bill_put(1)
    \/ save_get_items(1)
    \/ save_put_item(1)
    \/ Finish(1)
    \/ get_bill_by_id

SpecCreate == Init /\ [][NextCreate]_vars


\* Create, Update, single-item update and single-item delete, one at a time.
NextTotals ==
    \/ Return
    \/ add_bill_unpaid
    \/ update_bill
    \/ update_bill_item
    \/ delete_bill_item

SpecTotals == Init /\ [][NextTotals]_vars


\* Two bills, each owning items; Update of the first.
NextOwners ==
    \/ Return
    \/ add_bill_with(Headers, MaxOwners) /\ last'.req.payments = <<>>
    \/ update_bill
    \/ get_bill_by_id

SpecOwners == Init /\ [][NextOwners]_vars


\* ======================================================================
\* Update step by step, beside other requests
\* ======================================================================
\* SET ... delivery_status, total_amount, outstanding_amount, #s ... of
\* update_bill on the stored header: the other attributes stay as stored.
update_bill_set(stored, computed) ==
    [stored EXCEPT !.customer_id = computed.customer_id,
                   !.delivery_status = computed.delivery_status,
                   !.total_amount = computed.total_amount,
                   !.outstanding_amount = computed.outstanding_amount,
                   !.status = computed.status]

\* PUT /bills/{id}: the request arrives; the handler checks the body,
\* processes the items and reads the header.
update_bill_get(p) ==
    /\ Idle
    /\ Free(p)
    /\ \E bill_id \in BillIds, hdr \in Headers :
        LET at(pc, req, local, code) ==
                [procs EXCEPT ![p] = InFlight("update_bill", pc, bill_id, 0, req,
                                              local, code)]
        IN IF HeaderMissing(hdr)
           THEN /\ procs' = at("done", [hdr |-> hdr, items |-> <<>>], <<>>, 400)
                /\ UNCHANGED nextItemId
           ELSE \E items \in SeqsUpTo(ItemInputs(1..(nextItemId - 1)), MaxItems) :
               LET req == [hdr |-> hdr, items |-> items]
                   processed_items == process_items(items, nextItemId, <<>>)
                   total_amount == SumTotalPrice(processed_items)
               IN IF items = <<>>
                  THEN /\ procs' = at("done", req, <<>>, 400)
                       /\ UNCHANGED nextItemId
                  ELSE IF bill_id \notin DOMAIN bills
                  THEN /\ procs' = at("done", req, <<>>, 404)
                       /\ UNCHANGED nextItemId
                  ELSE /\ nextItemId + FreshCount(items) - 1 <= MaxItemIds
                       /\ nextItemId' = nextItemId + FreshCount(items)
                       /\ procs' = at("update", req,
                                      SaveLocal(bills[bill_id], processed_items,
                                                total_amount, clock, <<>>, {}),
                                      0)
    /\ UNCHANGED <<bills, billItems, nextBillId, nextPaymentId, clock, last,
                   nextImageId>>

\* The update_item of the header, computed against the paid_amount of the
\* header as it was read; an exception is answered with 500.
update_bill_update(p) ==
    /\ Idle
    /\ procs[p].op = "update_bill"
    /\ procs[p].pc = "update"
    /\ \E outcome \in WriteOutcomes :
        LET local == procs[p].local
            computed == [update_bill_write(local.bill, local.total_amount)
                            EXCEPT !.customer_id = procs[p].req.hdr.customer_id,
                                   !.delivery_status =
                                       delivery_status_of(procs[p].req.hdr)]
        IN /\ bills' = IF Applied(outcome)
                       THEN Put(bills, procs[p].bill_id,
                                update_bill_set(HeaderOrKeyOnly(bills, procs[p].bill_id),
                                                computed))
                       ELSE bills
           /\ procs' = IF outcome = "ok"
                       THEN [procs EXCEPT ![p].pc = "save_get"]
                       ELSE Raise(p, "update_item")
    /\ UNCHANGED <<billItems, nextBillId, nextItemId, nextPaymentId, clock, last,
                   nextImageId>>

\* Bodies of add_bill and update_bill with one item.
add_bill_one_item == add_bill_unpaid /\ Len(last'.req.items) <= 1
update_bill_get_one_item(p) == update_bill_get(p) /\ Len(procs'[p].req.items) <= 1
\* The steps of save_bill_items when no call of the ledger raises.
save_bill_items_ok(p) == save_bill_items_steps(p) /\ procs'[p].local.raised = ""
\* The first AddPayment of a bill.
add_payment_get_first(p) == add_payment_get(p) /\ nextPaymentId' <= 2

\* An AddPayment that arrives while an Update of the bill is in flight; the
\* next Update may arrive while the AddPayment is still in flight.
NextPayUpdate ==
    \/ Return
    \/ add_bill_one_item
    \/ update_bill_get_one_item(1)
    \/ update_bill_update(1)
    \/ save_bill_items_ok(1)
    \/ add_payment_get_first(2)
    \/ add_payment_update(2)
    \/ \E p \in Procs : Finish(p)

SpecPayUpdate == Init /\ [][NextPayUpdate]_vars

\* Attach requests that arrive while an Update of the bill is in flight; the
\* next Update may arrive while the Attach is still in flight.
NextAttachUpdate ==
    \/ Return
    \/ add_bill_one_item
    \/ update_bill_get_one_item(1)
    \/ update_bill_update(1)
    \/ save_bill_items_ok(1)
    \/ upload_bill_item_image(2)
    \/ \E p \in Procs : Finish(p)

SpecAttachUpdate == Init /\ [][NextAttachUpdate]_vars


\* The steps of delete_bill when no call of the store raises.
delete_bill_ok(p) ==
    /\ delete_bill_steps(p)
    /\ procs'[p].local.lookup = "ok"
    /\ procs'[p].code # 500

\* A Delete of the bill that arrives while an Update or an AddPayment is in
\* flight.
NextDeleteRace ==
    \/ Return
    \/ add_bill_one_item
    \/ update_bill_get_one_item(1)
    \/ update_bill_update(1)
    \/ save_bill_items_ok(1)
    \/ add_payment_get_first(1)
    \/ add_payment_update(1)
    \/ delete_bill_ok(2)
    \/ \E p \in Procs : Finish(p)

SpecDeleteRace == Init /\ [][NextDeleteRace]_vars


\* ======================================================================
\* Properties
\* ======================================================================
\* Sum of the amounts of a payments list, by prefix.
PaymentsSum(payments) ==
    LET f[i \in 0..Len(payments)] ==
            IF i = 0 THEN 0 ELSE f[i - 1] + payments[i].amount
    IN f[Len(payments)]

\* The status rule of the data model: outstanding <= 0 is fully_paid,
\* outstanding > 0 with paid > 0 is partially_paid, anything else unpaid.
StatusRule(total, paid) ==
    CASE total - paid <= 0 -> "fully_paid"
      [] total - paid > 0 /\ paid > 0 -> "partially_paid"
      [] OTHER -> "unpaid"

\* The request answered last was op and ended with this status code.
Answered(op, code) == last.op = op /\ last.code = code

\* The request answered last named a bill that was in the Bills table.
OnStoredBill(op) == last.op = op /\ last.bill_id \in DOMAIN last.pre

\* The request answered last left both tables as they were.
NothingPersisted == bills = last.pre /\ billItems = last.preItems

\* C1 (as stated): after every operation of a serial run the stored bill has
\* paidAmount = sum of its payments' amounts and
\* outstandingAmount = totalAmount - paidAmount.
C1_AmountsConsistent ==
    \A b \in DOMAIN bills :
        /\ bills[b].paid_amount = PaymentsSum(bills[b].payments)
        /\ bills[b].outstanding_amount = bills[b].total_amount - bills[b].paid_amount

\* C2 (as stated): the stored status is fully_paid iff total - paid <= 0,
\* unpaid iff paid = 0 and total - paid > 0, and partially_paid otherwise.
C2_StatusAsClaimed ==
    \A b \in DOMAIN bills :
        LET total == bills[b].total_amount
            paid == bills[b].paid_amount
        IN /\ (bills[b].status = "fully_paid") <=> (total - paid <= 0)
           /\ (bills[b].status = "unpaid") <=> (paid = 0 /\ total - paid > 0)
           /\ (bills[b].status = "partially_paid") <=>
                  ~(total - paid <= 0) /\ ~(paid = 0 /\ total - paid > 0)

\* C3 (as stated): the sum of a bill's payments never exceeds its totalAmount.
C3_PaymentsWithinTotal ==
    \A b \in DOMAIN bills : PaymentsSum(bills[b].payments) <= bills[b].total_amount

\* C4 (as stated): every stored payment has amount > 0.
C4_PaymentAmountsPositive ==
    \A b \in DOMAIN bills :
        \A i \in DOMAIN bills[b].payments : bills[b].payments[i].amount > 0

\* ---- Create ----
\* The request answered last is an add_bill whose body has the required header
\* fields and at least one item, so that it gets as far as the payments.
CreateRequest ==
    /\ last.op = "add_bill"
    /\ ~HeaderMissing(last.req.hdr)
    /\ last.req.items # <<>>

\* Sum of quantity * unitPrice over the items of a request body.
ItemsTotal(items) ==
    LET f[i \in 0..Len(items)] ==
            IF i = 0 THEN 0 ELSE f[i - 1] + items[i].quantity * items[i].unitPrice
    IN f[Len(items)]

\* Sum of the first k amounts of the payments of a request body.
RunningSum(payments, k) ==
    LET f[i \in 0..k] == IF i = 0 THEN 0 ELSE f[i - 1] + Get(payments[i].amount, 0)
    IN f[k]

\* The add_bill answered last stored its bill fully paid with nothing outstanding.
CreatedFullyPaid ==
    /\ last.code = 200
    /\ last.bill_id \in DOMAIN bills
    /\ bills[last.bill_id].status = "fully_paid"
    /\ bills[last.bill_id].outstanding_amount = 0

\* C5 (amended): a Create whose payments have a running sum above the total
\* of its items answers 400 and persists nothing; a Create whose payments all
\* have amount > 0 and sum exactly to the total answers 200 and stores the
\* bill fully_paid with outstanding_amount 0.
C5_CreateCeiling ==
    CreateRequest =>
        LET payments == last.req.payments
            total == ItemsTotal(last.req.items)
        IN /\ (\E k \in DOMAIN payments : RunningSum(payments, k) > total)
                => (last.code = 400 /\ NothingPersisted)
           /\ (/\ \A k \in DOMAIN payments : Get(payments[k].amount, 0) > 0
               /\ RunningSum(payments, Len(payments)) = total)
                => CreatedFullyPaid

\* C5 witness: add_bill stored a bill whose two payments, both positive, sum
\* exactly to the total of its items.
C5_Witness ==
    /\ CreateRequest
    /\ last.code = 200
    /\ Len(last.req.payments) = 2
    /\ \A k \in DOMAIN last.req.payments : Get(last.req.payments[k].amount, 0) > 0
    /\ RunningSum(last.req.payments, 2) = ItemsTotal(last.req.items)
    /\ Len(bills[last.bill_id].payments) = 2

\* C5 (as stated): as above, but every Create whose payments sum exactly to
\* the total succeeds, whatever the signs of the amounts.
C5_CreateCeilingAsClaimed ==
    CreateRequest =>
        LET payments == last.req.payments
            total == ItemsTotal(last.req.items)
        IN /\ (\E k \in DOMAIN payments : RunningSum(payments, k) > total)
                => (last.code = 400 /\ NothingPersisted)
           /\ (RunningSum(payments, Len(payments)) = total) => CreatedFullyPaid

\* C6 (as stated): a Create with a payment of amount <= 0 in its body answers
\* 400 and persists nothing.
C6_NonPositivePaymentRejected ==
    (/\ CreateRequest
     /\ \E k \in DOMAIN last.req.payments :
            /\ last.req.payments[k].amount # Absent
            /\ last.req.payments[k].amount[1] <= 0)
        => (last.code = 400 /\ NothingPersisted)

\* ---- AddPayment ----
\* C7 (as stated): add_payment on a stored bill with a missing, zero or
\* negative amount, or an amount above the stored outstanding_amount, answers
\* 400 and leaves the bill as it was.
C7_AddPaymentRejected ==
    (/\ OnStoredBill("add_payment")
     /\ \/ last.req.amount = Absent
        \/ last.req.amount[1] <= 0
        \/ last.req.amount[1] > last.pre[last.bill_id].outstanding_amount)
        => (last.code = 400 /\ bills = last.pre)

\* C8 (as stated): a successful add_payment appends one payment with the
\* amount of the request, keeps the payments it found, and stores
\* paid = previous paid + amount, outstanding = total - paid and the status
\* of the status rule.
C8_AddPaymentAppends ==
    Answered("add_payment", 200) =>
        LET old == last.pre[last.bill_id]
            new == bills[last.bill_id]
            amount == last.req.amount[1]
            n == Len(old.payments)
        IN /\ Len(new.payments) = n + 1
           /\ SubSeq(new.payments, 1, n) = old.payments
           /\ new.payments[n + 1].amount = amount
           /\ new.total_amount = old.total_amount
           /\ new.paid_amount = old.paid_amount + amount
           /\ new.outstanding_amount = new.total_amount - new.paid_amount
           /\ new.status = StatusRule(new.total_amount, new.paid_amount)

\* ---- UpdatePayment, DeletePayment ----
\* The request answered last passed the required-field check of update_payment.
ValidPaymentBody ==
    /\ TruthyNum(last.req.amount)
    /\ TruthyStr(last.req.paymentDate)
    /\ TruthyStr(last.req.paymentMethod)

\* The bill carries paid = sum of its payments, outstanding = total - paid and
\* the status of the status rule.
DerivedFromPayments(bill) ==
    /\ bill.paid_amount = PaymentsSum(bill.payments)
    /\ bill.outstanding_amount = bill.total_amount - bill.paid_amount
    /\ bill.status = StatusRule(bill.total_amount, bill.paid_amount)

\* C9 (as stated): update_payment with a well-formed body on a stored bill
\* answers 404 and changes nothing when no payment has the id; otherwise it
\* replaces that payment in place, keeping id and createdAt, keeps every other
\* payment, and stores amounts and status derived from the new list.
C9_UpdatePaymentReplaces ==
    (OnStoredBill("update_payment") /\ ValidPaymentBody) =>
        LET old == last.pre[last.bill_id]
            new == bills[last.bill_id]
            id == last.req.payment_id
        IN IF \A j \in DOMAIN old.payments : old.payments[j].id # id
           THEN last.code = 404 /\ bills = last.pre
           ELSE /\ last.code = 200
                /\ Len(new.payments) = Len(old.payments)
                /\ \A j \in DOMAIN old.payments :
                      IF old.payments[j].id = id
                      THEN new.payments[j] =
                               [id |-> id,
                                amount |-> last.req.amount[1],
                                paymentDate |-> last.req.paymentDate,
                                paymentMethod |-> last.req.paymentMethod,
                                createdAt |-> old.payments[j].createdAt]
                      ELSE new.payments[j] = old.payments[j]
                /\ new.total_amount = old.total_amount
                /\ DerivedFromPayments(new)

\* C10 (as stated): delete_payment on a stored bill answers 404 and changes
\* nothing when no payment has the id; otherwise it removes that payment,
\* keeps the others in order, and stores amounts and status derived from the
\* remaining list (unpaid when no payment remains and the total is positive).
C10_DeletePaymentRemoves ==
    OnStoredBill("delete_payment") =>
        LET old == last.pre[last.bill_id]
            new == bills[last.bill_id]
            id == last.req.payment_id
            kept == SelectSeq(old.payments, LAMBDA p : p.id # id)
        IN IF kept = old.payments
           THEN last.code = 404 /\ bills = last.pre
           ELSE /\ last.code = 200
                /\ new.payments = kept
                /\ Len(kept) = Len(old.payments) - 1
                /\ new.total_amount = old.total_amount
                /\ DerivedFromPayments(new)
                /\ (kept = <<>> /\ new.total_amount > 0) => new.status = "unpaid"

\* ---- Update ----
\* C11: an update_bill that succeeds keeps payments and paid_amount, stores
\* as total_amount the sum of quantity * unitPrice over the items of the
\* request, and stores outstanding_amount = new total - old paid_amount and
\* the status the status rule gives for them; an update_bill with a
\* well-formed body on a stored bill succeeds.
C11_UpdateKeepsPayments ==
    (/\ OnStoredBill("update_bill")
     /\ ~HeaderMissing(last.req.hdr)
     /\ last.req.items # <<>>) =>
        LET old == last.pre[last.bill_id]
            new == bills[last.bill_id]
            total == ItemsTotal(last.req.items)
        IN /\ last.code = 200
           /\ new.payments = old.payments
           /\ new.paid_amount = old.paid_amount
           /\ new.total_amount = total
           /\ new.outstanding_amount = total - old.paid_amount
           /\ new.status = StatusRule(total, old.paid_amount)

\* C11 witness: update_bill changed the total of a bill that has a payment,
\* and the status changed with it.
C11_Witness ==
    /\ Answered("update_bill", 200)
    /\ last.pre[last.bill_id].payments # <<>>
    /\ bills[last.bill_id].total_amount # last.pre[last.bill_id].total_amount
    /\ bills[last.bill_id].status # last.pre[last.bill_id].status
    /\ bills[last.bill_id].payments = last.pre[last.bill_id].payments

\* ---- Ledger ----
\* Ids the items of a request body name.
NamedIds(items) == {items[k].id[1] : k \in {j \in DOMAIN items : items[j].id # Absent}}

\* C12: an update_bill that succeeds leaves as items of the bill exactly the
\* ids of the replacement list (the ids the body names and the ids generated
\* for its items without one): stored items of the bill the list does not name
\* are deleted, items the bill already had keep reference_images and
\* created_at, and the others are stored with no reference images.
C12_ReplaceStep ==
    (/\ Idle
     /\ last'.op = "update_bill"
     /\ last'.code = 200) =>
        LET b == last'.bill_id
            had == {i \in DOMAIN billItems : billItems[i].bill_id = b}
            has == {i \in DOMAIN billItems' : billItems'[i].bill_id = b}
            named == NamedIds(last'.req.items)
            generated == nextItemId..(nextItemId' - 1)
        IN /\ has = named \cup generated
           /\ Cardinality(generated) = FreshCount(last'.req.items)
           /\ \A i \in had \ named : i \notin DOMAIN billItems'
           /\ \A i \in had \cap named :
                 /\ billItems'[i].reference_images = billItems[i].reference_images
                 /\ billItems'[i].created_at = billItems[i].created_at
           /\ \A i \in has \ had : billItems'[i].reference_images = <<>>
ItemsOf(tbl, b) == {i \in DOMAIN tbl : tbl[i].bill_id = b}

\* A delete_bill request has just returned with this code.
DeleteReturns(code) ==
    /\ procs[1].pc # "done"
    /\ procs'[1].op = "delete_bill"
    /\ procs'[1].pc = "done"
    /\ procs'[1].code = code

\* C13 (as stated): the header of a bill is deleted only when no item of the
\* bill is left in BillItems; when delete_bill returns 200 the bill has no
\* header and no items; get_bill_by_id of a bill without header answers 404.
C13_CascadeStep ==
    /\ \A b \in DOMAIN bills :
          b \notin DOMAIN bills' => ItemsOf(billItems, b) = {}
    /\ DeleteReturns(200) =>
          /\ procs'[1].bill_id \notin DOMAIN bills'
          /\ ItemsOf(billItems', procs'[1].bill_id) = {}
    /\ (Idle /\ last'.op = "get_bill_by_id" /\ last'.bill_id \notin DOMAIN bills) =>
          last'.code = 404
C13_CascadeDelete == [][C13_CascadeStep]_vars

\* The deletion of the items of a delete_bill in flight has failed: the query
\* raised, or the loop over the items was left by an exception.
ItemDeletionFailed ==
    /\ procs[1].op = "delete_bill"
    /\ \/ procs[1].local.lookup = "failed"
       \/ procs[1].pc = "done" /\ procs[1].local.existing_items # {}

\* C14 (as stated): once the deletion of the items has failed the request
\* does not delete the header, and it does not return 200.
C14_FailedStep ==
    ItemDeletionFailed =>
        /\ procs[1].bill_id \in DOMAIN bills => procs[1].bill_id \in DOMAIN bills'
        /\ procs[1].pc = "done" => procs[1].code # 200
        /\ procs'[1].pc = "done" => procs'[1].code # 200
C14_FailedItemDeletionKeepsHeader == [][C14_FailedStep]_vars

\* C15 (as stated): delete_bill of an id without header answers 404.
C15_DeleteMissingNotFound ==
    (last.op = "delete_bill" /\ last.bill_id \notin DOMAIN last.pre) => last.code = 404

\* ---- DeleteSingleItem ----
\* C16 (as stated): a delete_bill_item of a stored item of a stored bill
\* removes the item and sets total_amount to max(0, stored total_amount - the
\* item's total_price), outstanding_amount to the new total minus the stored
\* paid_amount and the status accordingly; paid_amount and payments stay.
C16_DeleteItemSubtracts ==
    (/\ OnStoredBill("delete_bill_item")
     /\ last.code = 200) =>
        LET old == last.pre[last.bill_id]
            new == bills[last.bill_id]
            item == last.preItems[last.req.item_id]
            total == Max(0, old.total_amount - item.total_price)
        IN /\ last.req.item_id \notin DOMAIN billItems
           /\ new.total_amount = total
           /\ new.outstanding_amount = total - old.paid_amount
           /\ new.status = StatusRule(total, old.paid_amount)
           /\ new.paid_amount = old.paid_amount
           /\ new.payments = old.payments

\* ---- Read and List ----
\* The bill object r shows the amounts and the status that follow from the
\* stored total_amount and the stored payments of bill b.
Recomputed(r, b) ==
    LET paid == PaymentsSum(bills[b].payments)
    IN /\ r.paidAmount = paid
       /\ r.outstandingAmount = bills[b].total_amount - paid
       /\ r.status = StatusRule(bills[b].total_amount, paid)

\* C17 (as stated): the bill get_bill_by_id returns, and every bill get_bills
\* returns, has paidAmount = sum of the stored payments, outstandingAmount =
\* stored total_amount - that sum, and the status that follows from the two.
C17_ReadsRecompute ==
    /\ Answered("get_bill_by_id", 200) => Recomputed(last.body, last.bill_id)
    /\ Answered("get_bills", 200) =>
          \A b \in DOMAIN last.body : Recomputed(last.body[b], b)

\* ---- Item prices ----
\* C18 (as stated): every stored item has total_price = quantity * unit_price.
C18_TotalPriceInvariant ==
    \A i \in DOMAIN billItems :
        billItems[i].total_price = billItems[i].quantity * billItems[i].unit_price

\* ---- Concurrency ----
\* Both requests in flight are add_payment requests on the same bill that
\* returned 200 after reading the same stored bill.
BothAddedOnSameBase ==
    /\ \A p \in Procs : /\ procs[p].op = "add_payment"
                        /\ procs[p].pc = "done"
                        /\ procs[p].code = 200
    /\ procs[1].bill_id = procs[2].bill_id
    /\ procs[1].local.bill = procs[2].local.bill

\* C19: when two add_payment requests on the same bill have read the same
\* stored bill and both returned 200, the stored payments are the payments
\* both read plus the payment of one of the two requests only.
C19_LostUpdate ==
    BothAddedOnSameBase =>
        LET base == procs[1].local.bill.payments
            stored == bills[procs[1].bill_id].payments
        IN \/ stored = Append(base, procs[1].local.new_payment)
           \/ stored = Append(base, procs[2].local.new_payment)
\* Both returned 200 and the payment of the first request is not stored.
C19_Witness ==
    /\ BothAddedOnSameBase
    /\ Len(bills[procs[1].bill_id].payments) = Len(procs[1].local.bill.payments) + 1
    /\ \A k \in DOMAIN bills[procs[1].bill_id].payments :
          bills[procs[1].bill_id].payments[k].id # procs[1].local.new_payment.id

\* Both requests in flight are uploads to the same item that returned 200
\* after the atomic append returned without exception.
BothAttachedByAppend ==
    /\ \A p \in Procs : /\ procs[p].op = "upload_bill_item_image"
                        /\ procs[p].pc = "done"
                        /\ procs[p].code = 200
                        /\ procs[p].local.path = "primary"
    /\ procs[1].item_id = procs[2].item_id

\* The image URL is in the stored reference_images of the item.
HasImage(item_id, image_url) ==
    /\ item_id \in DOMAIN billItems
    /\ \E k \in DOMAIN billItems[item_id].reference_images :
          billItems[item_id].reference_images[k] = image_url

\* C20: when two uploads to the same item have both completed through the
\* atomic append, the reference_images of the item hold both image URLs.
C20_BothImagesKept ==
    BothAttachedByAppend =>
        \A p \in Procs : HasImage(procs[p].item_id, procs[p].local.image_url)
\* Two uploads to the same item are answered through the append, neither
\* response delivered yet, and the item holds the two images.
C20_Witness ==
    /\ BothAttachedByAppend
    /\ procs[1].local.image_url # procs[2].local.image_url
    /\ Len(billItems[procs[1].item_id].reference_images) = 2
    /\ \A p \in Procs : HasImage(procs[p].item_id, procs[p].local.image_url)

\* ---- Detach ----
\* The request answered last is a detach on a stored item.
DetachOnStoredItem ==
    /\ last.op = "delete_bill_item_image"
    /\ last.req.item_id \in DOMAIN last.preItems

\* The positions of the stored URLs that contain the imageId of the request.
DetachMatches ==
    LET old == last.preItems[last.req.item_id].reference_images
    IN {k \in DOMAIN old : Contains(last.req.image_id, old[k])}

\* C21: a detach whose imageId no stored URL of the item contains answers 404
\* and changes nothing; otherwise it answers 200, whatever the S3 delete did,
\* and the stored list is the old list without the URLs that contain the
\* imageId, the others in their old order; no other item changes.
C21_DetachRemovesImage ==
    DetachOnStoredItem =>
        LET i == last.req.item_id
            old == last.preItems[i].reference_images
            kept == {k \in DOMAIN old : k \notin DetachMatches}
        IN IF DetachMatches = {}
           THEN last.code = 404 /\ NothingPersisted
           ELSE /\ last.code = 200
                /\ bills = last.pre
                /\ DOMAIN billItems = DOMAIN last.preItems
                /\ \A j \in DOMAIN billItems \ {i} : billItems[j] = last.preItems[j]
                /\ billItems[i] = [last.preItems[i] EXCEPT
                                      !.reference_images = billItems[i].reference_images]
                /\ LET new == billItems[i].reference_images
                   IN /\ Len(new) = Cardinality(kept)
                      /\ \A k \in DOMAIN new : ~Contains(last.req.image_id, new[k])
                      /\ \A k1, k2 \in kept :
                            k1 < k2 =>
                               \E n1, n2 \in DOMAIN new :
                                  n1 < n2 /\ new[n1] = old[k1] /\ new[n2] = old[k2]
                      /\ \A k \in kept : \E n \in DOMAIN new : new[n] = old[k]
\* A detach of one of two stored images succeeded although the S3 delete
\* failed; the other image is still stored.
C21_Witness ==
    /\ DetachOnStoredItem
    /\ last.code = 200
    /\ last.req.s3 = "failed"
    /\ Len(last.preItems[last.req.item_id].reference_images) = 2
    /\ Len(billItems[last.req.item_id].reference_images) = 1
\* ---- List by deliveryStatus ----
\* C22 (as stated): get_bills with deliveryStatus "pending" returns, of the
\* bills that pass the other filters, exactly those whose stored
\* delivery_status is "pending" or NULL; with another deliveryStatus it returns
\* only bills whose stored delivery_status is that value.
C22_DeliveryFilter ==
    (Answered("get_bills", 200) /\ TruthyStr(last.req.deliveryStatus)) =>
        LET passing == {b \in DOMAIN bills :
                           TruthyStr(last.req.status) => bills[b].status = last.req.status}
        IN IF last.req.deliveryStatus = "pending"
           THEN DOMAIN last.body =
                   {b \in passing : bills[b].delivery_status \in {<<>>, <<"pending">>}}
           ELSE \A b \in DOMAIN last.body :
                   bills[b].delivery_status = <<last.req.deliveryStatus>>

\* ---- Create whose item write fails ----
\* C23: when add_bill has put the header and a write of save_bill_items then
\* fails, the request is answered with 500 and the header add_bill put is
\* still stored.
C23_HeaderStaysAfterFailedItems ==
    \A p \in Procs :
        (/\ procs[p].op = "add_bill"
         /\ procs[p].pc = "done"
         /\ procs[p].bill_id # 0
         /\ procs[p].local.raised = "save_bill_items")
        => /\ procs[p].code = 500
           /\ procs[p].bill_id \in DOMAIN bills
           /\ bills[procs[p].bill_id] = procs[p].local.bill

\* An add_bill answered with 500 after its first write to the ledger failed:
\* the header is stored and the ledger holds no item of the bill.
C23_Witness ==
    \E p \in Procs :
        /\ procs[p].op = "add_bill"
        /\ procs[p].pc = "done"
        /\ procs[p].code = 500
        /\ procs[p].local.raised = "save_bill_items"
        /\ procs[p].bill_id \in DOMAIN bills
        /\ ItemsOf(billItems, procs[p].bill_id) = {}

\* ---- The fallback of Attach ----
\* No value occurs twice in the list.
NoDuplicates(images) ==
    \A j, k \in DOMAIN images : images[j] = images[k] => j = k

\* C24: no image URL occurs more than once in the reference_images of an
\* item, whichever path the uploads take.
C24_NoDuplicateImage ==
    \A item_id \in DOMAIN billItems : NoDuplicates(billItems[item_id].reference_images)

\* An upload whose atomic append was applied and raised: the first fallback
\* attempt found the URL in the list and wrote nothing, and the item holds
\* the URL once.
C24_Witness ==
    \E p \in Procs :
        /\ procs[p].op = "upload_bill_item_image"
        /\ procs[p].pc = "done"
        /\ procs[p].code = 200
        /\ procs[p].local.path = "fallback"
        /\ procs[p].local.attempt = 0
        /\ procs[p].local.current_images = <<>>
        /\ HasImage(procs[p].item_id, procs[p].local.image_url)
        /\ NoDuplicates(billItems[procs[p].item_id].reference_images)

\* A step of the fallback loop of upload p that ends the request.
FallbackEnds(p) ==
    /\ procs[p].op = "upload_bill_item_image"
    /\ procs[p].pc \in {"retry_get", "retry_update"}
    /\ procs'[p].pc = "done"

\* C25 (as stated): the fallback makes at most max_retries attempts; when it
\* ends with 200 the item holds the image URL (an attempt wrote it or found
\* it), and it ends with 500 only at the last attempt.
C25_FallbackStep ==
    \A p \in Procs :
        FallbackEnds(p) =>
            /\ procs[p].local.attempt < max_retries
            /\ procs'[p].code \in {200, 500}
            /\ procs'[p].code = 500 => procs[p].local.attempt = max_retries - 1
            /\ procs'[p].code = 200 =>
                   /\ procs[p].item_id \in DOMAIN billItems'
                   /\ image_url_in(procs[p].local.image_url,
                                   billItems'[procs[p].item_id].reference_images)
C25_FallbackSucceedsOnlyWhenStored == [][C25_FallbackStep]_vars

\* ---- totalAmount against the ledger ----
RECURSIVE SumOfTotalPrice(_, _)
\* The sum of total_price over the items ids of the table.
SumOfTotalPrice(tbl, ids) ==
    IF ids = {} THEN 0
    ELSE LET i == CHOOSE x \in ids : TRUE
         IN tbl[i].total_price + SumOfTotalPrice(tbl, ids \ {i})

\* C26 (as stated): between serial requests the total_amount of every stored
\* bill is the sum of total_price over the items the ledger holds for it.
C26_TotalIsLedgerSum ==
    \A b \in DOMAIN bills :
        bills[b].total_amount = SumOfTotalPrice(billItems, ItemsOf(billItems, b))

\* ---- Items of another bill ----
\* C29 (as stated): an update_bill of bill X leaves every item that another
\* bill owned before the request stored as it was, and creates no item owned
\* by another bill.
C29_UpdateKeepsOtherBills ==
    (last.op = "update_bill" /\ last.code = 200) =>
        /\ \A i \in DOMAIN last.preItems :
              last.preItems[i].bill_id # last.bill_id =>
                  i \in DOMAIN billItems /\ billItems[i] = last.preItems[i]
        /\ \A i \in DOMAIN billItems :
              billItems[i].bill_id # last.bill_id =>
                  i \in DOMAIN last.preItems

\* ---- Requests beside an Update of the bill ----
\* An add_payment and an update_bill of the same bill are both answered with
\* 200, neither response delivered yet.
PaymentBesideUpdate(p, q) ==
    /\ procs[p].op = "add_payment"
    /\ procs[q].op = "update_bill"
    /\ procs[p].pc = "done" /\ procs[p].code = 200
    /\ procs[q].pc = "done" /\ procs[q].code = 200
    /\ procs[p].bill_id = procs[q].bill_id
    /\ procs[p].bill_id \in DOMAIN bills

\* C27 (as stated): after a payment request and a request that changes
\* total_amount have both completed on a bill, the stored header has
\* outstanding_amount = total_amount - paid_amount and the status derived
\* from these amounts.
C27_ConsistentAfterBoth ==
    \A p, q \in Procs :
        PaymentBesideUpdate(p, q) =>
            LET bill == bills[procs[p].bill_id]
            IN /\ bill.outstanding_amount = bill.total_amount - bill.paid_amount
               /\ bill.status = DeriveStatus(bill.total_amount - bill.paid_amount,
                                             bill.paid_amount)

\* An upload to item i answered with 200 beside an update_bill of the owning
\* bill, answered with 200, whose items list names i.
AttachBesideUpdate(p, q) ==
    /\ procs[p].op = "upload_bill_item_image"
    /\ procs[q].op = "update_bill"
    /\ procs[p].pc = "done" /\ procs[p].code = 200
    /\ procs[q].pc = "done" /\ procs[q].code = 200
    /\ procs[p].bill_id = procs[q].bill_id
    /\ \E k \in DOMAIN procs[q].req.items :
          procs[q].req.items[k].id = <<procs[p].item_id>>

\* C28 (as stated): after an upload to item i and an update_bill that keeps i
\* have both completed, the item holds the image URL of the upload.
C28_ImageKeptBesideUpdate ==
    \A p, q \in Procs :
        AttachBesideUpdate(p, q) =>
            HasImage(procs[p].item_id, procs[p].local.image_url)

\* ---- Delete beside requests in flight ----
\* A delete_bill of bill b is answered with 200, its response not delivered
\* yet, and no other request on b is still running.
DeletedAndQuiet(b) ==
    /\ \E p \in Procs : /\ procs[p].op = "delete_bill"
                        /\ procs[p].bill_id = b
                        /\ procs[p].pc = "done"
                        /\ procs[p].code = 200
    /\ \A p \in Procs : procs[p].bill_id = b => procs[p].pc = "done"

\* C30 (as stated): once a delete_bill of b has returned 200 and the requests
\* on b that were in flight have completed, no header of b and no item with
\* bill_id b is stored.
C30_NothingLeftAfterDelete ==
    \A b \in BillIds :
        DeletedAndQuiet(b) => b \notin DOMAIN bills /\ ItemsOf(billItems, b) = {}
====
